---- MODULE Spec2Model ----
(***************************************************************************)
(* Model of the monitowl agent (whmonit/client/agent.py): the Receiver ->  *)
(* Spool (sqlite table sensordata) -> Shipper pipeline with the response   *)
(* hook Shipper._reqdone, and the Agent supervisor that spawns, restarts   *)
(* and reconfigures Sensor processes.                                      *)
(***************************************************************************)
EXTENDS Integers, Sequences, FiniteSets, TLC

\* ------------------------------------------------------------------------
\* Bounds of the model
\* ------------------------------------------------------------------------
\* DataPoints the sensors produce in one behaviour.
MaxData == 3
\* Failed connections in a row that a behaviour follows.
MaxOutage == 2
\* Rows one SELECT of the Shipper returns (LIMIT 250 in the source, scaled).
Limit == 2
\* Config documents that differ from the current one, served in a behaviour.
MaxDocs == 2
\* Processes that die on their own, and observations of a resident set size
\* above the memory limit, in a behaviour.
MaxFaults == 3
\* Main-loop passes between two config polls (60 in the source, scaled).
RecheckTicks == 2
\* Runs of its sensor one worker makes.
MaxRuns == 2

\* ------------------------------------------------------------------------
\* Program constants
\* ------------------------------------------------------------------------
\* Clamp of the connection failure counter.
ConfailsMax == 200
\* Batch sizes that move the adaptive sleep time.
SpeedUpAbove == 200
SlowDownBelow == 160

\* Agent.__init__: time_diff, seconds.
TimeDiff == 600

\* Exit code of a sensor process whose run timed out.
SensorTimeoutExitcode == 22
\* Process.exitcode while the process has not ended (None).
NoExitcode == 0 - 1
\* check_millisecond_timestamp: the greatest bit_length it lets through.
TimestampBits == 64
\* run_timeout of the sensor's config, seconds (the least the schema allows).
RunTimeout == 5

ConfigIds == {"A", "B"}
\* Seconds by which the collector's clock is ahead of the agent's.
Offsets == {0 - 86405, 0 - 720, 0 - 601, 0 - 600, 0 - 599, 0, 599, 600, 601, 720, 86405}
\* Two instants t1 < t2 (the text of one-digit stamps sorts as the numbers do).
Stamps == {1, 2}
Streams == {"default"}
\* (config_id, stamp) as Shipper.run appends it to data_to_remove.
Pairs == ConfigIds \X Stamps

\* response.text: not JSON, or a JSON object with "status" and the lists
\* "data" / "reason"; the collector lists pairs of the batch it was sent.
Bodies(sent) ==
    {[valid |-> FALSE, status |-> "", data |-> {}, reason |-> {}]}
    \cup {[valid |-> TRUE, status |-> "OK", data |-> {}, reason |-> {}]}
    \cup {[valid |-> TRUE, status |-> "Not_all_saved", data |-> d, reason |-> {}] :
            d \in SUBSET sent}
    \cup {[valid |-> TRUE, status |-> "ERROR_PARTIAL_STORE", data |-> {}, reason |-> d] :
            d \in SUBSET sent}

\* The responses to a request that carried the pairs sent: a body that is
\* read (status 200, 400) is any of Bodies; the others are logged only.
Responses(sent) ==
    {[status_code |-> c, text |-> t] :
        c \in {200, 400}, t \in Bodies(sent)}
    \cup {[status_code |-> c, text |-> t] :
        c \in {0, 500}, t \in Bodies({})}

\* No response handled yet.
NoResponse == [status_code |-> -1,
               text |-> [valid |-> FALSE, status |-> "", data |-> {}, reason |-> {}]]

VARIABLES
    queue,          \* Agent._queue: messages of the sensors, oldest first
    produced,       \* number of DataPoints produced so far (their identity)
    receiver_pc,    \* "sleep" | "drain" | "dead"
    uncommitted,    \* rows INSERTed by the Receiver and not yet committed
    sensordata,     \* committed rows of the table sensordata
    shipper_pc,     \* "sleep" | "request" | "dead"
    data_to_remove, \* the pairs of the last batch, bound into its response hook
    sleeptime,      \* Shipper.sleeptime in units of 0.2 s
    confails,       \* Shipper._confails
    outage,         \* failed connections in a row
    response,       \* the response the last call of _reqdone handled
    accepted,       \* rows of the drains of the Receiver that have ended
    acked           \* pairs of the to-delete lists of 200/400 responses

VARIABLES
    agentconfig,    \* Agent.agentconfig['sensors'] as config_id -> descriptor
    subprocesses,   \* Agent._subprocesses: the process objects and their processes
    orphans,        \* live processes of sensor objects removed from the list
    agent_pc,       \* "init" | "top" | "sleep" | "done" | "crashed"
    running,        \* Agent.running
    recheck_config_timeout,
    docs_served,    \* changed config documents served so far
    faults,         \* deaths of processes and breaches of a memory limit so far
    reapplied,      \* the last config pass applied the config of the pass before
    overdue         \* sensors the last walk of the list left running above their limit

VARIABLES
    batches,        \* the last two passes of Shipper.run: rows fetched, sleeptime set
    worker,         \* one periodic sensor process and what it has put on Agent._queue
    stamped,        \* a value given to check_millisecond_timestamp, and the outcome
    enrol,          \* enrollment of one agent process: the files, the wrapper, the requests made
    storage,        \* one sqlite table sensorstorage and the StorageManager opened on it
    conf,           \* the agent's config, its file, the reserved ids and the error stream
    framed,         \* a value, its data package and what unpack returns
    mailbox,        \* one periodic worker, its reconfigure flag and its config queue
    shipment,       \* one Shipper: the Spool, the rows of its last SELECT and the DELETE of its hook
    closing,        \* Agent.cleanup: the sensors' processes, their storages and the table sensorstorage
    schedule,       \* one periodic worker's loop: the timer, the sleep and the starts of its runs
    loading         \* one agent applying config documents whose sensor kinds may have no module

agent_vars == <<agentconfig, subprocesses, orphans, agent_pc, running,
                recheck_config_timeout, docs_served, faults,
                reapplied, overdue>>

pipeline_vars == <<queue, produced, receiver_pc, uncommitted, sensordata,
                   shipper_pc, data_to_remove, sleeptime, confails, outage, response,
                   accepted, acked>>

vars == <<queue, produced, receiver_pc, uncommitted, sensordata,
          shipper_pc, data_to_remove, sleeptime, confails, outage, response,
          accepted, acked, agentconfig, subprocesses, orphans, agent_pc,
          running, recheck_config_timeout, docs_served, faults,
          reapplied, overdue, batches, worker, stamped, enrol, storage, conf, framed, mailbox, shipment, closing, schedule, loading>>

unit_vars == <<batches, worker, stamped, enrol, storage, conf, framed, mailbox, shipment, closing, schedule, loading>>

\* The variables a step of one unit leaves alone.
but_batches == <<pipeline_vars, agent_vars, worker, stamped, enrol, storage, conf, framed, mailbox, shipment, closing, schedule, loading>>
but_worker == <<pipeline_vars, agent_vars, batches, stamped, enrol, storage, conf, framed, mailbox, shipment, closing, schedule, loading>>
but_stamped == <<pipeline_vars, agent_vars, batches, worker, enrol, storage, conf, framed, mailbox, shipment, closing, schedule, loading>>
but_enrol == <<pipeline_vars, agent_vars, batches, worker, stamped, storage, conf, framed, mailbox, shipment, closing, schedule, loading>>
but_storage == <<pipeline_vars, agent_vars, batches, worker, stamped, enrol, conf, framed, mailbox, shipment, closing, schedule, loading>>
but_conf == <<pipeline_vars, agent_vars, batches, worker, stamped, enrol, storage, framed, mailbox, shipment, closing, schedule, loading>>
but_framed == <<pipeline_vars, agent_vars, batches, worker, stamped, enrol, storage, conf, mailbox, shipment, closing, schedule, loading>>
but_mailbox == <<pipeline_vars, agent_vars, batches, worker, stamped, enrol, storage, conf, framed, shipment, closing, schedule, loading>>
but_shipment == <<pipeline_vars, agent_vars, batches, worker, stamped, enrol, storage, conf, framed, mailbox, closing, schedule, loading>>
but_closing == <<pipeline_vars, agent_vars, batches, worker, stamped, enrol, storage, conf, framed, mailbox, shipment, schedule, loading>>
but_schedule == <<pipeline_vars, agent_vars, batches, worker, stamped, enrol, storage, conf, framed, mailbox, shipment, closing, loading>>
but_loading == <<pipeline_vars, agent_vars, batches, worker, stamped, enrol, storage, conf, framed, mailbox, shipment, closing, schedule>>

Min(a, b) == IF a < b THEN a ELSE b
Max(a, b) == IF a > b THEN a ELSE b

Pair(row) == <<row.config_id, row.stamp>>
Range(s) == {s[i] : i \in DOMAIN s}

\* ------------------------------------------------------------------------
\* Serialization: JSONTypeRegistrySerializer and the data package
\* ------------------------------------------------------------------------
\* Texts are sequences of bytes (0..255).  JSONTypeRegistrySerializer.signature
Signature == 1

\* type_.__name__ of four registered primitives, in ASCII.
SchemaNames ==
    [bool |-> <<98, 111, 111, 108>>,
     float |-> <<102, 108, 111, 97, 116>>,
     str |-> <<115, 116, 114>>,
     datetime |-> <<100, 97, 116, 101, 116, 105, 109, 101>>]

\* Values of the registered types: a bool (num 1 or 0), a float (bytes: its
\* repr), a str (bytes: its content), a naive datetime (num: milliseconds
\* since the epoch, sub: the microseconds below the millisecond).
PyValue(type, num, sub, bytes) ==
    [type |-> type, num |-> num, sub |-> sub, bytes |-> bytes]

\* repr(0.5), repr(float('nan'))
FloatReprs == {<<48, 46, 53>>, <<110, 97, 110>>}
NaN == <<110, 97, 110>>

\* 'a', '"', and the two bytes of U+00E9 in UTF-8.
StrBytes == {97, 34, 195, 169}
Strs ==
    {<<>>} \cup {<<a>> : a \in StrBytes} \cup {<<a, b>> : a, b \in StrBytes}
    \cup {<<a, b, c>> : a, b, c \in StrBytes}

PyValues ==
    {PyValue("bool", n, 0, <<>>) : n \in {0, 1}}
    \cup {PyValue("float", 0, 0, r) : r \in FloatReprs}
    \cup {PyValue("str", 0, 0, s) : s \in Strs}
    \cup {PyValue("datetime", ms, us, <<>>) :
            ms \in {0, 9, 1234}, us \in {0, 1, 499, 500, 999}}

\* An exception in place of a value or of a text.
Raised(name) == PyValue("raised", 0, 0, <<>>) @@ [error |-> name]
Returned(v) == v @@ [error |-> ""]
Text(bytes) == Returned(PyValue("text", 0, 0, bytes))

\* str(n) for an int n >= 0, and int(text)
RECURSIVE Decimal(_)
Decimal(n) ==
    IF n < 10 THEN <<48 + n>> ELSE Decimal(n \div 10) \o <<48 + (n % 10)>>

RECURSIVE ParseInt(_, _, _)
ParseInt(text, k, acc) ==
    IF k > Len(text) THEN acc
    ELSE ParseInt(text, k + 1, 10 * acc + (text[k] - 48))

\* The code points of a str read as UTF-8 (what json.dumps does with a str):
\* ok is false for a sequence that is not UTF-8.
RECURSIVE Utf8Decode(_, _, _)
Utf8Decode(bytes, k, points) ==
    IF k > Len(bytes) THEN [ok |-> TRUE, points |-> points]
    ELSE IF bytes[k] < 128
         THEN Utf8Decode(bytes, k + 1, Append(points, bytes[k]))
    ELSE IF /\ bytes[k] \in 194..223
            /\ k < Len(bytes)
            /\ bytes[k + 1] \in 128..191
         THEN Utf8Decode(bytes, k + 2,
                         Append(points,
                                (bytes[k] - 192) * 64 + (bytes[k + 1] - 128)))
    ELSE [ok |-> FALSE, points |-> points]

HexDigit(n) == IF n < 10 THEN 48 + n ELSE 97 + (n - 10)

\* One character of a JSON string with ensure_ascii (code points below 256).
JsonEscape(point) ==
    IF point = 34 THEN <<92, 34>>
    ELSE IF point = 92 THEN <<92, 92>>
    ELSE IF point < 128 THEN <<point>>
    ELSE <<92, 117, 48, 48, HexDigit(point \div 16), HexDigit(point % 16)>>

RECURSIVE JsonEscapeAll(_, _)
JsonEscapeAll(points, k) ==
    IF k > Len(points) THEN <<>>
    ELSE JsonEscape(points[k]) \o JsonEscapeAll(points, k + 1)

HexValue(byte) == IF byte >= 97 THEN byte - 97 + 10 ELSE byte - 48

\* The code points of the JSON string between the quotes of text.
RECURSIVE JsonUnescape(_, _, _)
JsonUnescape(text, k, points) ==
    IF k >= Len(text) THEN points
    ELSE IF text[k] /= 92
         THEN JsonUnescape(text, k + 1, Append(points, text[k]))
    ELSE IF text[k + 1] = 117
         THEN JsonUnescape(text, k + 6,
                           Append(points, HexValue(text[k + 4]) * 16
                                          + HexValue(text[k + 5])))
    ELSE JsonUnescape(text, k + 2, Append(points, text[k + 1]))

\* serialize_<type>
Serialize(v) ==
    IF v.type = "bool"
    THEN Text(IF v.num = 1 THEN <<116, 114, 117, 101>>
                           ELSE <<102, 97, 108, 115, 101>>)
    ELSE IF v.type = "float"
    THEN Text(IF v.bytes = NaN THEN <<78, 97, 78>> ELSE v.bytes)
    ELSE IF v.type = "str"
    THEN LET decoded == Utf8Decode(v.bytes, 1, <<>>) IN
         IF decoded.ok
         THEN Text(<<34>> \o JsonEscapeAll(decoded.points, 1) \o <<34>>)
         ELSE Raised("UnicodeDecodeError")
    ELSE \* datetime_to_milliseconds: int(round(seconds * 1000 + us / 1000.0))
         Text(Decimal(v.num + (IF v.sub >= 500 THEN 1 ELSE 0)))

\* schema_to_type and deserialize_<type>
Deserialize(text, schema) ==
    IF schema = SchemaNames.bool
    THEN Returned(PyValue("bool", IF text = <<116, 114, 117, 101>> THEN 1 ELSE 0,
                          0, <<>>))
    ELSE IF schema = SchemaNames.float
    THEN Returned(PyValue("float", 0, 0,
                          IF text = <<78, 97, 78>> THEN NaN ELSE text))
    ELSE IF schema = SchemaNames.str
    THEN LET points == JsonUnescape(text, 2, <<>>) IN
         \* str(unicode) encodes with the ascii codec
         IF \A i \in DOMAIN points : points[i] < 128
         THEN Returned(PyValue("str", 0, 0, points))
         ELSE Raised("UnicodeEncodeError")
    ELSE IF schema = SchemaNames.datetime
    THEN Returned(PyValue("datetime", ParseInt(text, 1, 0), 0, <<>>))
    ELSE Raised("NameNotRegisteredError")

\* struct.pack('!H', n)
PackShort(n) == <<n \div 256, n % 256>>

\* TypeRegistrySerializationBase.pack
Pack(v) ==
    LET schema == SchemaNames[v.type]
        sdata == Serialize(v) IN
    IF sdata.type = "raised" THEN sdata
    ELSE Text(PackShort(Signature) \o PackShort(Len(schema)) \o schema
              \o sdata.bytes)

\* TypeRegistrySerializationBase.unpack
Unpack(data) ==
    IF SubSeq(data, 1, 2) /= PackShort(Signature)
    THEN Raised("InvalidSignatureError")
    ELSE LET packed_schema_len == data[3] * 256 + data[4] IN
         Deserialize(SubSeq(data, 5 + packed_schema_len, Len(data)),
                     SubSeq(data, 5, 4 + packed_schema_len))

NoPackage == Text(<<>>)

\* pack(data) is called.
FramePack(v) ==
    /\ framed' = [value |-> v, packed |-> Pack(v), pc |-> "packed",
                  unpacked |-> NoPackage]
    /\ UNCHANGED but_framed

\* unpack is called with the package.
FrameUnpack ==
    /\ framed.pc = "packed"
    /\ framed.packed.type /= "raised"
    /\ framed' = [framed EXCEPT !.unpacked = Unpack(framed.packed.bytes),
                                !.pc = "unpacked"]
    /\ UNCHANGED but_framed

InitFramed ==
    framed = [value |-> PyValue("bool", 0, 0, <<>>), packed |-> NoPackage,
              pc |-> "idle", unpacked |-> NoPackage]

NextFramed ==
    \/ \E v \in PyValues : FramePack(v)
    \/ FrameUnpack

\* ------------------------------------------------------------------------
\* Sensor.send_results: one message per (stream, output) on the shared queue
\* ------------------------------------------------------------------------
\* msg['data'] of the messages: the str 'a'.
Sample == PyValue("str", 0, 0, <<97>>)

SensorSendResults(cid, stamp, stream) ==
    /\ produced < MaxData
    /\ produced' = produced + 1
    /\ queue' = Append(queue, [id |-> produced + 1, stamp |-> stamp,
                               config_id |-> cid, stream |-> stream,
                               data |-> Sample])
    /\ UNCHANGED <<receiver_pc, uncommitted, sensordata, shipper_pc,
                   data_to_remove, sleeptime, confails, outage, response, accepted, acked>>
    /\ UNCHANGED <<agent_vars, unit_vars>>

\* ------------------------------------------------------------------------
\* Receiver.run
\* ------------------------------------------------------------------------
\* time.sleep(1) is over: the drain starts.
ReceiverWake ==
    /\ receiver_pc = "sleep"
    /\ receiver_pc' = "drain"
    /\ UNCHANGED <<queue, produced, uncommitted, sensordata, shipper_pc,
                   data_to_remove, sleeptime, confails, outage, response, accepted, acked>>
    /\ UNCHANGED <<agent_vars, unit_vars>>

\* The row INSERTed for a message: result is the package of its data.
Stored(msg) ==
    [id |-> msg.id, stamp |-> msg.stamp, config_id |-> msg.config_id,
     stream |-> msg.stream, result |-> Pack(msg.data).bytes]

\* queue.get_nowait() returned a message: INSERT it (inside the transaction
\* the connection opened with the first INSERT of the drain).
ReceiverInsert ==
    /\ receiver_pc = "drain"
    /\ queue /= <<>>
    /\ uncommitted' = uncommitted \cup {Stored(Head(queue))}
    /\ queue' = Tail(queue)
    /\ UNCHANGED <<produced, receiver_pc, sensordata, shipper_pc,
                   data_to_remove, sleeptime, confails, outage, response, accepted, acked>>
    /\ UNCHANGED <<agent_vars, unit_vars>>

\* queue.get_nowait() raised Empty: commit and sleep again.
ReceiverCommit ==
    /\ receiver_pc = "drain"
    /\ queue = <<>>
    /\ sensordata' = sensordata \cup uncommitted
    /\ accepted' = accepted \cup uncommitted
    /\ uncommitted' = {}
    /\ receiver_pc' = "sleep"
    /\ UNCHANGED <<queue, produced, shipper_pc, data_to_remove, sleeptime,
                   confails, outage, response, acked>>
    /\ UNCHANGED <<agent_vars, unit_vars>>

\* self.serializer.pack(msg['datatype'](msg['data'])) returns for the message.
Packs(msg) == Pack(msg.data).type /= "raised"

\* The message taken from the queue is packed and INSERTed.
ReceiverStores ==
    /\ queue /= <<>>
    /\ Packs(Head(queue))
    /\ ReceiverInsert

\* pack raised for the message taken from the queue: only Empty is caught,
\* so the exception leaves the "with" block of the connection, which rolls
\* the transaction of the drain back, and ends Receiver.run and the process.
ReceiverPackRaises ==
    /\ receiver_pc = "drain"
    /\ queue /= <<>>
    /\ ~ Packs(Head(queue))
    /\ queue' = Tail(queue)
    /\ uncommitted' = {}
    /\ receiver_pc' = "dead"
    /\ UNCHANGED <<produced, sensordata, shipper_pc, data_to_remove, sleeptime,
                   confails, outage, response, accepted, acked>>
    /\ UNCHANGED <<agent_vars, unit_vars>>

\* The Agent's loop finds the Receiver dead and starts a new one
\* (Receiver.__init__) on the same queue and database.
ReceiverRestarted ==
    /\ receiver_pc = "dead"
    /\ receiver_pc' = "sleep"
    /\ UNCHANGED <<queue, produced, uncommitted, sensordata, shipper_pc,
                   data_to_remove, sleeptime, confails, outage, response,
                   accepted, acked>>
    /\ UNCHANGED <<agent_vars, unit_vars>>

\* ------------------------------------------------------------------------
\* Shipper.run
\* ------------------------------------------------------------------------
\* SELECT * FROM sensordata ORDER BY stamp DESC LIMIT 250: the possible row
\* sets (rows with equal stamps are cut off in an unspecified order).
SelectSets(table) ==
    {S \in SUBSET table :
        /\ Cardinality(S) = Min(Limit, Cardinality(table))
        /\ \A r \in S : \A q \in table \ S : r.stamp >= q.stamp}

\* The first row of fetchall(): the newest stamp, the oldest row among equals.
FirstRow(S) ==
    CHOOSE r \in S : \A q \in S :
        \/ r.stamp > q.stamp
        \/ r.stamp = q.stamp /\ r.id <= q.id

RECURSIVE Fetchall(_)
Fetchall(S) ==
    IF S = {} THEN <<>>
    ELSE <<FirstRow(S)>> \o Fetchall(S \ {FirstRow(S)})

\* Variant: the steps without the floor of 0.2 s and the ceiling of 1.0 s.
AdjustSleeptimeUnclamped(st, n) ==
    IF n > SpeedUpAbove THEN st - 1
    ELSE IF n < SlowDownBelow THEN st + 1
    ELSE st

\* Adjust sleeptime according to the size of the data fetched.
AdjustSleeptime(st, n) ==
    IF n > SpeedUpAbove THEN Max(1, st - 1)
    ELSE IF n < SlowDownBelow THEN Min(5, st + 1)
    ELSE st

\* data_to_remove.append((config_id, timestamp)) for every fetched row.
PairsOf(data) == [i \in 1..Len(data) |-> Pair(data[i])]

\* self.serializer.unpack(result) returns for the row.
Unpacks(row) == Unpack(row.result).type /= "raised"

\* One pass of the loop up to the PUT request.
ShipperSelect ==
    /\ shipper_pc = "sleep"
    /\ \E S \in SelectSets(sensordata) :
        LET data == Fetchall(S) IN
        /\ \A r \in S : Unpacks(r)
        /\ sleeptime' = AdjustSleeptime(sleeptime, Len(data))
        /\ IF data /= <<>>
           THEN /\ shipper_pc' = "request"
                /\ data_to_remove' = PairsOf(data)
           ELSE /\ shipper_pc' = "sleep"
                /\ data_to_remove' = <<>>
    /\ UNCHANGED <<queue, produced, receiver_pc, uncommitted, sensordata,
                   confails, outage, response, accepted, acked>>
    /\ UNCHANGED <<agent_vars, unit_vars>>

\* unpack raised for a fetched row: the exception ends Shipper.run and the
\* process.
ShipperUnpackRaises ==
    /\ shipper_pc = "sleep"
    /\ \E S \in SelectSets(sensordata) :
        /\ \E r \in S : ~ Unpacks(r)
        /\ sleeptime' = AdjustSleeptime(sleeptime, Cardinality(S))
    /\ shipper_pc' = "dead"
    /\ UNCHANGED <<queue, produced, receiver_pc, uncommitted, sensordata,
                   data_to_remove, confails, outage, response, accepted, acked>>
    /\ UNCHANGED <<agent_vars, unit_vars>>

\* The Agent's loop finds the Shipper dead and starts a new one
\* (Shipper.__init__) on the same database.
ShipperRestarted ==
    /\ shipper_pc = "dead"
    /\ shipper_pc' = "sleep"
    /\ sleeptime' = 5
    /\ confails' = 1
    /\ data_to_remove' = <<>>
    /\ UNCHANGED <<queue, produced, receiver_pc, uncommitted, sensordata,
                   outage, response, accepted, acked>>
    /\ UNCHANGED <<agent_vars, unit_vars>>

\* send_results raised requests.exceptions.RequestException: no hook runs.
ShipperRequestException ==
    /\ shipper_pc = "request"
    /\ shipper_pc' = "sleep"
    /\ UNCHANGED <<queue, produced, receiver_pc, uncommitted, sensordata,
                   data_to_remove, sleeptime, confails, outage, response,
                   accepted, acked>>
    /\ UNCHANGED <<agent_vars, unit_vars>>

\* ------------------------------------------------------------------------
\* Shipper._reqdone
\* ------------------------------------------------------------------------
\* Variant: the list "reason" of an ERROR_PARTIAL_STORE body is read, too.
ToRemoveReadsReason(sent, text) ==
    IF text.status = "Not_all_saved" THEN text.data
    ELSE IF text.status = "ERROR_PARTIAL_STORE" THEN text.reason
    ELSE Range(sent)

\* if data_saved['status'] == 'Not_all_saved': data_to_remove = data_saved['data']
ToRemove(sent, text) ==
    IF text.status = "Not_all_saved" THEN text.data ELSE Range(sent)

\* DELETE FROM sensordata WHERE config_id IN (...) AND stamp IN (...)
DeleteRows(table, to_remove) ==
    {r \in table :
        ~ (/\ r.config_id \in {p[1] : p \in to_remove}
           /\ r.stamp \in {p[2] : p \in to_remove})}

\* Variant: the counter is not clamped.
ConfailsUnclamped(n) == n + 1

\* The counter after a failed connection.
ConfailsAfterFailure(n) ==
    IF n + 1 > ConfailsMax THEN ConfailsMax ELSE n + 1

\* Variant: every answer of the collector deletes.
DeletingAnyAnswer(status_code) == status_code /= 0

\* Variant: only a success deletes.
DeletingSuccessOnly(status_code) == status_code = 200

\* The status codes whose response body is read and acted upon.
Deleting(status_code) == status_code \in {200, 400}

Reqdone(status_code, text) ==
    /\ shipper_pc = "request"
    /\ response' = [status_code |-> status_code, text |-> text]
    /\ IF status_code = 0
       THEN /\ outage < MaxOutage
            /\ outage' = outage + 1
            /\ confails' = ConfailsAfterFailure(confails)
            /\ UNCHANGED <<sensordata, acked>>
       ELSE /\ confails' = 1
            /\ outage' = 0
            /\ IF Deleting(status_code) /\ text.valid
               THEN \* the DELETE waits for the write lock of the Receiver
                    /\ uncommitted = {}
                    /\ sensordata' = DeleteRows(sensordata,
                                                ToRemove(data_to_remove, text))
                    /\ acked' = acked \cup ToRemove(data_to_remove, text)
               ELSE UNCHANGED <<sensordata, acked>>
    /\ shipper_pc' = "sleep"
    /\ UNCHANGED <<queue, produced, receiver_pc, uncommitted, data_to_remove,
                   sleeptime, accepted>>
    /\ UNCHANGED <<agent_vars, unit_vars>>

\* ------------------------------------------------------------------------
\* Agent: config documents and process objects
\* ------------------------------------------------------------------------
\* The sensor kind a config_id is configured with: "uptime" is a
\* TaskSensorBase (periodic), "snmp_passive" an AdvancedSensorBase.
Kind(cid) == IF cid = "A" THEN "uptime" ELSE "snmp_passive"

\* issubclass(self.sensor_class, AdvancedSensorBase)
Advanced(sensor) == sensor = "snmp_passive"

\* Two sensor configs that differ.
Configs == {[sampling_period |-> 1, memory_limit |-> 1024],
            [sampling_period |-> 2, memory_limit |-> 2048]}

\* new_sensors = {s['config_id']: s for s in self.agentconfig['sensors']},
\* every descriptor naming the kind of its config_id.
ConfigDocs ==
    UNION {[D -> Configs] : D \in SUBSET ConfigIds}

\* 'sensors: []'
EmptyDoc == [cid \in {} |-> <<>>]

\* The order in which new_sensors.iteritems() yields the config_ids.
CidOrder == <<"A", "B">>

\* SensorConfig(config)['memory_limit']
MemoryLimit(config) == config.memory_limit

\* Sensor.__init__, the attributes _start_subprocess adds, and the process
\* that start() forks (state, the copy of the config the child runs with, and
\* whether its resident set size is above memory_limit).
SensorObject(cid, sensor, config, memory_limit) ==
    [cls |-> "Sensor", config_id |-> cid, sensor |-> sensor,
     config |-> config, args_config |-> config, memory_limit |-> memory_limit,
     config_queue |-> <<>>, do_config |-> FALSE,
     state |-> "alive", child_config |-> config, rss_over |-> FALSE]

\* Receiver.__init__ / Shipper.__init__, likewise.
InternalObject(cls) ==
    [cls |-> cls, config_id |-> "", sensor |-> "",
     config |-> <<>>, args_config |-> <<>>, memory_limit |-> 0,
     config_queue |-> <<>>, do_config |-> FALSE,
     state |-> "alive", child_config |-> <<>>, rss_over |-> FALSE]

\* Agent._start_subprocess: the object joins the list, its process starts.
StartSubprocess(st, obj) ==
    [st EXCEPT !.subprocesses = Append(@, obj),
               !.started = @ \cup {obj.config_id}]

\* multiprocessing.Process.terminate: SIGTERM is sent, nobody waits.
Terminate(obj) ==
    IF obj.state = "dead" THEN obj ELSE [obj EXCEPT !.state = "terminating"]

\* multiprocessing.Process.is_alive
IsAlive(obj) == obj.state /= "dead"

\* list.remove(instance)
RemoveAt(seq, i) ==
    [j \in 1..(Len(seq) - 1) |-> IF j < i THEN seq[j] ELSE seq[j + 1]]

\* sensor.terminate() and remove_sensor(config_id, sensor): the object leaves
\* the list; its process, if it has not exited, is still there.
TerminateAndRemove(st, i) ==
    LET obj == Terminate(st.subprocesses[i]) IN
    [st EXCEPT !.subprocesses = RemoveAt(@, i),
               !.orphans[obj.config_id] = IF IsAlive(obj) THEN @ + 1 ELSE @,
               !.terminated = @ \cup {obj.config_id}]

\* Position of the Sensor object of a config_id in the list, 0 if none.
SensorIndex(subs, cid) ==
    IF \E i \in DOMAIN subs : subs[i].cls = "Sensor" /\ subs[i].config_id = cid
    THEN CHOOSE i \in DOMAIN subs :
            subs[i].cls = "Sensor" /\ subs[i].config_id = cid
    ELSE 0

\* running_sensors: the config_ids of the Sensor objects of the list.
RunningSensors(subs) ==
    {subs[i].config_id : i \in {j \in DOMAIN subs : subs[j].cls = "Sensor"}}

\* The config_ids of the sensors of the list whose process runs, not yet
\* signalled, with a resident set size above the limit held for it.
Unchecked(subs) ==
    {subs[i].config_id : i \in {j \in DOMAIN subs :
                                    /\ subs[j].cls = "Sensor"
                                    /\ subs[j].memory_limit > 0
                                    /\ subs[j].state = "alive"
                                    /\ subs[j].rss_over}}

\* ------------------------------------------------------------------------
\* Sensor.reconfigure and Agent._spawn_sensors
\* ------------------------------------------------------------------------
\* Variant: the new config is pushed without comparing it with the old one.
ReconfigureNeededAlways(old, new) == TRUE

\* if config != self.config
ReconfigureNeeded(old, new) == new /= old

\* Sensor.reconfigure on a periodic sensor: new config, flag, mailbox.
Reconfigured(obj, config) ==
    [obj EXCEPT !.config = config,
                !.do_config = TRUE,
                !.config_queue = Append(@, config)]

\* First loop of _spawn_sensors: sensors no longer in the config are
\* terminated and removed.
RECURSIVE RemoveGone(_, _, _)
RemoveGone(st, doc, i) ==
    IF i > Len(st.subprocesses) THEN st
    ELSE IF /\ st.subprocesses[i].cls = "Sensor"
            /\ st.subprocesses[i].config_id \notin DOMAIN doc
         THEN RemoveGone(TerminateAndRemove(st, i), doc, i)
         ELSE RemoveGone(st, doc, i + 1)

\* The spawn at the end of the body of the second loop.
SpawnSensor(st, cid, config) ==
    StartSubprocess(st, SensorObject(cid, Kind(cid), config, MemoryLimit(config)))

\* Variant: a sensor whose config changed is replaced, whatever its class.
ApplyDescriptorRespawning(st, cid, config) ==
    LET i == SensorIndex(st.subprocesses, cid) IN
    IF i = 0 THEN SpawnSensor(st, cid, config)
    ELSE IF ~ ReconfigureNeeded(st.subprocesses[i].config, config) THEN st
         ELSE SpawnSensor(TerminateAndRemove(st, i), cid, config)

\* Body of the second loop of _spawn_sensors for one config_id.
ApplyDescriptor(st, cid, config) ==
    LET i == SensorIndex(st.subprocesses, cid) IN
    IF i = 0 THEN SpawnSensor(st, cid, config)
    ELSE LET obj == st.subprocesses[i] IN
         IF ~ ReconfigureNeeded(obj.config, config) THEN st
         ELSE IF Advanced(obj.sensor)
         THEN \* TerminatedException: removed, then spawned anew
              SpawnSensor(TerminateAndRemove(st, i), cid, config)
         ELSE [st EXCEPT !.subprocesses[i] = Reconfigured(obj, config),
                         !.delivered = @ \cup {cid}]

RECURSIVE ApplyDescriptors(_, _, _)
ApplyDescriptors(st, doc, k) ==
    IF k > Len(CidOrder) THEN st
    ELSE IF CidOrder[k] \in DOMAIN doc
         THEN ApplyDescriptors(ApplyDescriptor(st, CidOrder[k], doc[CidOrder[k]]),
                               doc, k + 1)
         ELSE ApplyDescriptors(st, doc, k + 1)

\* Agent._spawn_sensors
SpawnSensors(st, doc) == ApplyDescriptors(RemoveGone(st, doc, 1), doc, 1)

\* The list and the processes left behind, with the (empty) record of the
\* terminate(), start() and config_queue.put() calls of the operation at hand.
Operand(subs, orph) ==
    [subprocesses |-> subs, orphans |-> orph,
     terminated |-> {}, started |-> {}, delivered |-> {}]

AgentState == Operand(subprocesses, orphans)

\* ------------------------------------------------------------------------
\* Agent.run
\* ------------------------------------------------------------------------
\* What the collector's /time gives the five attempts of the clock check: a
\* timestamp (seconds ahead of the agent's clock), a timestamp of more than 64
\* bits (MillisecondTimestampRangeError), or no answer (RequestException).
TimeAnswers ==
    [kind : {"timestamp"}, offset : Offsets]
        \cup [kind : {"out_of_range", "no_answer"}, offset : {0}]

Abs(n) == IF n < 0 THEN 0 - n ELSE n

\* Variant: the clock check accepts every timestamp.
IsTimeSynchronizedUnchecked(answer) == TRUE

\* real_diff < self.time_diff
IsTimeSynchronized(answer) == Abs(answer.offset) < TimeDiff

\* Up to the main loop: clock check, then Receiver and Shipper are started.
AgentRunStart(answer) ==
    /\ agent_pc = "init"
    /\ answer.kind = "timestamp"
    /\ IF IsTimeSynchronized(answer)
       THEN /\ subprocesses' =
                StartSubprocess(StartSubprocess(AgentState,
                                                InternalObject("Receiver")),
                                InternalObject("Shipper")).subprocesses
            /\ agent_pc' = "top"
            /\ UNCHANGED running
       ELSE /\ running' = FALSE
            /\ agent_pc' = "done"
            /\ UNCHANGED subprocesses
    /\ UNCHANGED <<agentconfig, orphans, recheck_config_timeout, docs_served,
                   faults, reapplied>>
    /\ overdue' = overdue \cap Unchecked(subprocesses')
    /\ UNCHANGED <<pipeline_vars, unit_vars>>

\* _is_time_synchronized gave up after 5 attempts (no answer, or a timestamp
\* out of range, each time): ConnectionException ends run().
AgentRunNoTime(answer) ==
    /\ agent_pc = "init"
    /\ answer.kind /= "timestamp"
    /\ agent_pc' = "crashed"
    /\ UNCHANGED <<agentconfig, subprocesses, orphans, running,
                   recheck_config_timeout, docs_served, faults,
                   reapplied>>
    /\ overdue' = overdue \cap Unchecked(subprocesses')
    /\ UNCHANGED <<pipeline_vars, unit_vars>>

\* Head of the main loop when the config is due: get_remote_config got the
\* document doc (valid: saved; not valid: the old one stays), then
\* _spawn_sensors.
AgentConfigPass(doc, valid) ==
    /\ agent_pc = "top"
    /\ running
    /\ recheck_config_timeout - 1 = 0
    /\ LET new == IF valid THEN doc ELSE agentconfig
           st == SpawnSensors(AgentState, new) IN
       /\ new = agentconfig \/ docs_served < MaxDocs
       /\ docs_served' = IF new = agentconfig THEN docs_served ELSE docs_served + 1
       /\ agentconfig' = new
       /\ subprocesses' = st.subprocesses
       /\ orphans' = st.orphans
       /\ reapplied' = (new = agentconfig /\ RunningSensors(subprocesses) /= {})
    /\ recheck_config_timeout' = RecheckTicks
    /\ agent_pc' = "sleep"
    /\ UNCHANGED <<running, faults>>
    /\ overdue' = overdue \cap Unchecked(subprocesses')
    /\ UNCHANGED <<pipeline_vars, unit_vars>>

\* get_remote_config raised: ConnectionException after 5 attempts (10 s
\* apart) that each ended in a requests.RequestException, or at once the
\* StatusCodeException of an answer other than 200 (an Exception that no
\* except clause of the loop names).  run() catches neither, the exception
\* ends it past the call of cleanup.  `signalled`: a SIGTERM or SIGINT
\* arrived meanwhile, Agent.terminate ran.
AgentConfigUnreachable(signalled) ==
    /\ agent_pc = "top"
    /\ running
    /\ recheck_config_timeout - 1 = 0
    /\ agent_pc' = "crashed"
    /\ recheck_config_timeout' = 0
    /\ running' = (running /\ ~ signalled)
    /\ UNCHANGED <<agentconfig, subprocesses, orphans, docs_served,
                   faults, reapplied>>
    /\ overdue' = overdue \cap Unchecked(subprocesses')
    /\ UNCHANGED <<pipeline_vars, unit_vars>>

\* Head of the main loop when the config is not due.
AgentNoConfigPass ==
    /\ agent_pc = "top"
    /\ running
    /\ recheck_config_timeout - 1 /= 0
    /\ recheck_config_timeout' = recheck_config_timeout - 1
    /\ agent_pc' = "sleep"
    /\ UNCHANGED <<agentconfig, subprocesses, orphans, running, docs_served,
                   faults, reapplied>>
    /\ overdue' = overdue \cap Unchecked(subprocesses')
    /\ UNCHANGED <<pipeline_vars, unit_vars>>

\* Agent._restart_subprocess: the instance leaves the list, a new object of
\* its class with its proc_args and memory_limit joins it.
RestartSubprocess(st, i) ==
    LET obj == st.subprocesses[i]
        removed == [st EXCEPT !.subprocesses = RemoveAt(@, i)] IN
    StartSubprocess(removed,
        IF obj.cls = "Sensor"
        THEN SensorObject(obj.config_id, obj.sensor, obj.args_config,
                          obj.memory_limit)
        ELSE InternalObject(obj.cls))

\* One iteration of "for process in self._subprocesses" at position i: the
\* memory check, then the restart of a process that is not alive (exited: a
\* process just terminated is already gone when is_alive() looks).
ScanOne(st, i, exited) ==
    LET obj == st.subprocesses[i]
        hit == /\ obj.cls = "Sensor"
               /\ obj.memory_limit > 0
               /\ IsAlive(obj)
               /\ obj.rss_over
        obj2 == IF hit /\ exited THEN [obj EXCEPT !.state = "dead"]
                ELSE IF hit THEN Terminate(obj)
                ELSE obj
        st2 == [st EXCEPT !.subprocesses[i] = obj2,
                          !.terminated = IF hit THEN @ \cup {obj.config_id} ELSE @] IN
    IF ~ IsAlive(obj2) THEN RestartSubprocess(st2, i) ELSE st2

\* The for loop over the list, which the restarts change while it is walked:
\* the loop goes on with position i + 1 of the changed list.
RECURSIVE Scan(_, _, _)
Scan(st, i, exited) ==
    IF i > Len(st.subprocesses) THEN st
    ELSE Scan(ScanOne(st, i, exited), i + 1, exited)

\* time.sleep(1) and the for loop of one pass of the main loop.
AgentScan(exited) ==
    /\ agent_pc = "sleep"
    /\ exited => Scan(AgentState, 1, FALSE).terminated /= {}
    /\ subprocesses' = Scan(AgentState, 1, exited).subprocesses
    /\ agent_pc' = "top"
    /\ UNCHANGED <<agentconfig, orphans, running, recheck_config_timeout,
                   docs_served, faults, reapplied>>
    /\ overdue' = Unchecked(subprocesses) \cap Unchecked(subprocesses')
    /\ UNCHANGED <<pipeline_vars, unit_vars>>

\* Agent.terminate: SIGTERM or SIGINT (the flag is read at the head of the
\* loop only, the signal is delivered there).
AgentTerminate ==
    /\ agent_pc = "top"
    /\ running
    /\ running' = FALSE
    /\ UNCHANGED <<agentconfig, subprocesses, orphans, agent_pc,
                   recheck_config_timeout, docs_served, faults,
                   reapplied>>
    /\ overdue' = overdue \cap Unchecked(subprocesses')
    /\ UNCHANGED <<pipeline_vars, unit_vars>>

\* Sensor.stop / AgentInternal.stop: running.clear(), and terminate() for an
\* AdvancedSensor.
Stop(obj) ==
    IF obj.state /= "alive" THEN obj
    ELSE IF obj.cls = "Sensor" /\ Advanced(obj.sensor)
         THEN [obj EXCEPT !.state = "terminating"]
         ELSE [obj EXCEPT !.state = "stopping"]

\* The main loop has ended: Agent.cleanup.
AgentCleanup ==
    /\ agent_pc = "top"
    /\ ~ running
    /\ subprocesses' = [i \in DOMAIN subprocesses |-> Stop(subprocesses[i])]
    /\ agent_pc' = "done"
    /\ UNCHANGED <<agentconfig, orphans, running, recheck_config_timeout,
                   docs_served, faults, reapplied>>
    /\ overdue' = overdue \cap Unchecked(subprocesses')
    /\ UNCHANGED <<pipeline_vars, unit_vars>>

\* ------------------------------------------------------------------------
\* The processes
\* ------------------------------------------------------------------------
\* What a process does between the agent's walk of the list and the config
\* pass behind it is placed before the walk: the walk leaves mailboxes and
\* sizes alone, and the pass does not look at whether a process is alive, so
\* both orders end in the same state. The steps below are those taken while
\* the agent is in time.sleep(1), before its loop or after it.
\* The process of a list object, asked to stop or sent SIGTERM, exits.
ProcessExits(i) ==
    /\ agent_pc /= "top"
    /\ i \in DOMAIN subprocesses
    /\ subprocesses[i].state \in {"stopping", "terminating"}
    /\ subprocesses' = [subprocesses EXCEPT ![i].state = "dead"]
    /\ UNCHANGED <<agentconfig, orphans, agent_pc, running,
                   recheck_config_timeout, docs_served, faults,
                   reapplied>>
    /\ overdue' = overdue \cap Unchecked(subprocesses')
    /\ UNCHANGED <<pipeline_vars, unit_vars>>

\* The process of a sensor object that left the list exits.
OrphanExits(cid) ==
    /\ agent_pc /= "top"
    /\ orphans[cid] > 0
    /\ orphans' = [orphans EXCEPT ![cid] = @ - 1]
    /\ UNCHANGED <<agentconfig, subprocesses, agent_pc, running,
                   recheck_config_timeout, docs_served, faults,
                   reapplied>>
    /\ overdue' = overdue \cap Unchecked(subprocesses')
    /\ UNCHANGED <<pipeline_vars, unit_vars>>

\* A process dies on its own (unhandled error, timeout, parent changed).
ProcessDies(i) ==
    /\ agent_pc /= "top"
    /\ i \in DOMAIN subprocesses
    /\ subprocesses[i].state = "alive"
    /\ faults < MaxFaults
    /\ faults' = faults + 1
    /\ subprocesses' = [subprocesses EXCEPT ![i].state = "dead"]
    /\ UNCHANGED <<agentconfig, orphans, agent_pc, running,
                   recheck_config_timeout, docs_served, reapplied>>
    /\ overdue' = overdue \cap Unchecked(subprocesses')
    /\ UNCHANGED <<pipeline_vars, unit_vars>>

\* The resident set size of a live sensor process rises above the limit the
\* agent holds for it.
SensorGrows(i) ==
    /\ agent_pc /= "top"
    /\ i \in DOMAIN subprocesses
    /\ subprocesses[i].cls = "Sensor"
    /\ subprocesses[i].state = "alive"
    /\ subprocesses[i].memory_limit > 0
    /\ ~ subprocesses[i].rss_over
    /\ faults < MaxFaults
    /\ faults' = faults + 1
    /\ subprocesses' = [subprocesses EXCEPT ![i].rss_over = TRUE]
    /\ UNCHANGED <<agentconfig, orphans, agent_pc, running,
                   recheck_config_timeout, docs_served, reapplied>>
    /\ overdue' = overdue \cap Unchecked(subprocesses')
    /\ UNCHANGED <<pipeline_vars, unit_vars>>

\* Top of a tick of a periodic worker: with do_config set, the worker takes
\* the next config from its mailbox and clears the flag.
SensorTick(i) ==
    /\ agent_pc /= "top"
    /\ i \in DOMAIN subprocesses
    /\ subprocesses[i].cls = "Sensor"
    /\ ~ Advanced(subprocesses[i].sensor)
    /\ subprocesses[i].state = "alive"
    /\ subprocesses[i].do_config
    /\ subprocesses[i].config_queue /= <<>>
    /\ subprocesses' = [subprocesses EXCEPT
                            ![i].child_config = Head(subprocesses[i].config_queue),
                            ![i].config_queue = Tail(@),
                            ![i].do_config = FALSE]
    /\ UNCHANGED <<agentconfig, orphans, agent_pc, running,
                   recheck_config_timeout, docs_served, faults,
                   reapplied>>
    /\ overdue' = overdue \cap Unchecked(subprocesses')
    /\ UNCHANGED <<pipeline_vars, unit_vars>>

\* ------------------------------------------------------------------------
\* The pacing of Shipper.run
\* ------------------------------------------------------------------------
\* Numbers of rows a SELECT with LIMIT 250 returns, around the two thresholds.
BatchSizes == {0, 159, 160, 161, 200, 201, 250}

\* One pass of Shipper.run that fetches n rows: the sleep time is adjusted
\* before the rows are sent.
ShipperFetch(n) ==
    /\ shipper_pc = "sleep"
    /\ sleeptime' = AdjustSleeptime(sleeptime, n)
    /\ batches' = (IF batches = <<>> THEN <<>> ELSE <<batches[Len(batches)]>>)
                    \o <<[size |-> n, sleeptime |-> sleeptime']>>
    /\ UNCHANGED <<queue, produced, receiver_pc, uncommitted, sensordata,
                   shipper_pc, data_to_remove, confails, outage, response,
                   accepted, acked>>
    /\ UNCHANGED <<agent_vars, worker, stamped, enrol, storage, conf, framed, mailbox, shipment, closing, schedule, loading>>

InitPacing == batches = <<>>

NextPacing == \E n \in BatchSizes : ShipperFetch(n)

\* ------------------------------------------------------------------------
\* One periodic sensor worker: SensorBase.send_results and Sensor.run
\* ------------------------------------------------------------------------
\* The streams a sensor class declares, with their types; the metaclass adds
\* 'error' of type str. "list_stream" is the sensor of test_stream_bad_type,
\* whose streams are replaced by one stream of type list.
StreamsOf(sensor) ==
    IF sensor = "list_stream"
    THEN [s \in {"default"} |-> "list"]
    ELSE [s \in {"default", "error"} |-> IF s = "default" THEN "float" ELSE "str"]

WorkerSensors == {"uptime", "ping", "list_stream"}

\* PRIMITIVE_TYPE_REGISTRY.is_valid_type: the primitives; list is not one.
IsValidType(type) == type \in {"bool", "float", "str", "datetime"}

\* What do_run can return: items (stream, value), the value by its type.
Items ==
    [stream : {"default"}, type : {"float", "str", "list"}]
        \cup [stream : {"badstream"}, type : {"float"}]

Results == {<<>>} \cup {<<i>> : i \in Items} \cup {<<i, j>> : i, j \in Items}

\* The checks of SensorBase.send_results on one item.
ItemValid(sensor, item) ==
    /\ item.stream \in DOMAIN StreamsOf(sensor)
    /\ item.type = StreamsOf(sensor)[item.stream]
    /\ IsValidType(StreamsOf(sensor)[item.stream])

\* Sensor.send_results: one message per item.
Messages(sensor, timestamp, data) ==
    [i \in 1..Len(data) |->
        [stream_name |-> data[i].stream,
         data |-> data[i].type,
         datatype |-> StreamsOf(sensor)[data[i].stream],
         timestamp |-> timestamp]]

\* Variant: the items in front of the first invalid one are forwarded.
SendResultsUpToInvalid(sensor, timestamp, data) ==
    IF \A i \in DOMAIN data : ItemValid(sensor, data[i])
    THEN [raised |-> FALSE, put |-> Messages(sensor, timestamp, data)]
    ELSE LET bad == CHOOSE i \in DOMAIN data :
                        /\ ~ ItemValid(sensor, data[i])
                        /\ \A j \in 1..(i - 1) : ItemValid(sensor, data[j]) IN
         [raised |-> TRUE,
          put |-> Messages(sensor, timestamp, SubSeq(data, 1, bad - 1))]

\* SensorBase.send_results: all items are checked, then do_send_results.
SendResults(sensor, timestamp, data) ==
    IF \A i \in DOMAIN data : ItemValid(sensor, data[i])
    THEN [raised |-> FALSE, put |-> Messages(sensor, timestamp, data)]
    ELSE [raised |-> TRUE, put |-> <<>>]

\* SensorBase.log: an 'error' record stamped with utcnow().
Log(sensor, now) ==
    SendResults(sensor, now, <<[stream |-> "error", type |-> "str"]>>)

\* do_run catches the TimeoutException the agent's timer raises in it (ping:
\* a bare except around the call that blocks) and returns ().
Swallows(sensor) == sensor = "ping"

\* How long a do_run lasts, in seconds: within run_timeout, or beyond it.
Lasts == {1, RunTimeout + 1}

\* One tick of the worker: TaskSensorBase.run under the timeout. runtime is
\* utcnow() before do_run; do_run may report through self.log (logged), and
\* returns data after `lasts` unless the timer fires first. The outcome:
\* the messages put, the time the run took, and how the process goes on.
RunOutcome(sensor, runtime, logged, lasts, data) ==
    LET took == IF lasts > RunTimeout THEN RunTimeout ELSE lasts
        log == IF logged THEN Log(sensor, runtime + took)
               ELSE [raised |-> FALSE, put |-> <<>>]
        timedout == lasts > RunTimeout
        returned == IF timedout THEN <<>> ELSE data
        sent == SendResults(sensor, runtime, returned) IN
    IF log.raised
    THEN [put |-> log.put, took |-> took, exits |-> TRUE, exitcode |-> 0]
    ELSE IF timedout /\ ~ Swallows(sensor)
    THEN [put |-> log.put, took |-> took, exits |-> TRUE,
          exitcode |-> SensorTimeoutExitcode]
    ELSE [put |-> log.put \o sent.put, took |-> took, exits |-> sent.raised,
          exitcode |-> IF sent.raised THEN 0 ELSE NoExitcode]

WorkerRun(logged, lasts, data) ==
    /\ worker.pc = "tick"
    /\ worker.runs < MaxRuns
    /\ LET res == RunOutcome(worker.sensor, worker.clock, logged, lasts, data) IN
       worker' = [worker EXCEPT
            !.runs = @ + 1,
            !.clock = @ + res.took,
            !.out = @ \o res.put,
            !.pc = IF res.exits THEN "exited" ELSE "tick",
            !.exitcode = res.exitcode]
    /\ UNCHANGED but_worker

\* The worker ends on an unhandled exception ('Parent changed', an error of
\* the sensor).
WorkerFails ==
    /\ worker.pc = "tick"
    /\ worker' = [worker EXCEPT !.pc = "exited", !.exitcode = 1]
    /\ UNCHANGED but_worker

\* Agent._restart_subprocess on this worker: the log line, a new process.
WorkerRestart ==
    /\ worker.pc = "exited"
    /\ worker' = [worker EXCEPT
            !.pc = "tick",
            !.exitcode = NoExitcode,
            !.report = IF worker.exitcode = SensorTimeoutExitcode
                       THEN "timed out" ELSE "died"]
    /\ UNCHANGED but_worker

InitWorker(sensor) ==
    worker = [sensor |-> sensor, pc |-> "tick", exitcode |-> NoExitcode,
              report |-> "", runs |-> 0, clock |-> 0, out |-> <<>>]

NextWorker ==
    \/ \E logged \in BOOLEAN, lasts \in Lasts, data \in Results :
            WorkerRun(logged, lasts, data)
    \/ WorkerFails
    \/ WorkerRestart

\* ------------------------------------------------------------------------
\* Millisecond timestamps (whmonit/common/time.py)
\* ------------------------------------------------------------------------
\* A Python value by what check_millisecond_timestamp reads of it: its type
\* and, for an int or long t, its sign, t.bit_length() (the number of bits
\* of |t|) and whether |t| is the least number of that bit length,
\* 2^(bits - 1).
BitLengths == 0..(TimestampBits + 2)

Values ==
    {v \in [type : {"int", "float", "str"}, neg : BOOLEAN,
            bits : BitLengths, pow2 : BOOLEAN] :
        /\ v.type /= "int" => ~ v.neg /\ v.bits = 0 /\ ~ v.pow2
        /\ v.bits = 0 => ~ v.neg /\ ~ v.pow2
        /\ v.bits = 1 => v.pow2}

NoValue == [type |-> "none", neg |-> FALSE, bits |-> 0, pow2 |-> FALSE]

\* timestamp.bit_length()
BitLength(v) == v.bits

\* check_millisecond_timestamp: the exception raised, or "returned".
CheckMillisecondTimestamp(v) ==
    IF v.type /= "int" THEN "MillisecondTimestampTypeError"
    ELSE IF BitLength(v) > TimestampBits THEN "MillisecondTimestampRangeError"
    ELSE "returned"

\* A caller hands a value to check_millisecond_timestamp.
CheckTimestamp(v) ==
    /\ stamped.outcome = "none"
    /\ stamped' = [value |-> v, outcome |-> CheckMillisecondTimestamp(v)]
    /\ UNCHANGED but_stamped

\* The next call.
CheckReturns ==
    /\ stamped.outcome /= "none"
    /\ stamped' = [value |-> NoValue, outcome |-> "none"]
    /\ UNCHANGED but_stamped

InitTime == stamped = [value |-> NoValue, outcome |-> "none"]

NextTime ==
    \/ \E v \in Values : CheckTimestamp(v)
    \/ CheckReturns

\* ------------------------------------------------------------------------
\* Enrollment and transport (client.main, Agent.fetch_certificate)
\* ------------------------------------------------------------------------
\* RSA moduli: a private key and a certificate are known by theirs.
Moduli == {"m1", "m2", "m3"}

\* What the certificates service answers to a fetch: a ComputationError
\* (not signed yet, revoked, another one), or a certificate.
FetchAnswers == {"not_signed", "revoked", "error"} \cup Moduli

\* Variant: every certificate is taken to match the key.
CheckCryptoAny(crt, key) == TRUE

\* Agent.check_crypto: the modulus of the certificate's public key is the
\* modulus of the private key.
CheckCrypto(crt, key) == crt = key

\* os.path.exists(crt_path) and os.path.exists(key_path)
CertsExist(e) == e.crt /= "none" /\ e.key /= "none"

\* A request, with the client certificate it presents or without one.
Request(e, path, cert) ==
    [path |-> path, cert |-> cert, certs_exist |-> CertsExist(e)]

\* client.main up to the polling loop: Agent.__init__ builds make_request,
\* init_crypto writes a new key when a file is missing, and without a
\* certificate the signing request is sent.
ClientMain(newkey) ==
    /\ enrol.pc = "main"
    /\ LET made == [enrol EXCEPT !.presents = CertsExist(enrol)]
           keyed == IF CertsExist(enrol) THEN made
                    ELSE [made EXCEPT !.key = newkey] IN
       enrol' = IF enrol.crt = "none"
                THEN [keyed EXCEPT
                        !.pc = "polling",
                        !.requests = @ \cup {Request(keyed, "/csr", made.presents)}]
                ELSE [keyed EXCEPT !.pc = "ready"]
    /\ UNCHANGED but_enrol

\* One turn of `while not agent.fetch_certificate(): time.sleep(10)`: the
\* fetch goes through a RequestManager that is given the CA only.
FetchCertificate(answer) ==
    /\ enrol.pc = "polling"
    /\ LET asked == [enrol EXCEPT
                !.answer = answer,
                !.requests = @ \cup {Request(enrol, "certificates/fetch", FALSE)}] IN
       enrol' = IF answer \in Moduli /\ CheckCrypto(answer, enrol.key)
                THEN [asked EXCEPT !.crt = answer, !.pc = "ready"]
                ELSE asked
    /\ UNCHANGED but_enrol

\* Agent.run: the clock check asks /time through self.make_request.
RequestTime ==
    /\ enrol.pc = "ready"
    /\ enrol' = [enrol EXCEPT
            !.pc = "synchronized",
            !.requests = @ \cup {Request(enrol, "/time", enrol.presents)}]
    /\ UNCHANGED but_enrol

\* Agent.run: the Shipper is given a wrapper made anew in run(); its first
\* shipment to /store_data.
ShipData ==
    /\ enrol.pc = "synchronized"
    /\ enrol' = [enrol EXCEPT
            !.pc = "shipping",
            !.requests = @ \cup {Request(enrol, "/store_data", CertsExist(enrol))}]
    /\ UNCHANGED but_enrol

\* get_remote_config asks /agent_config through self.make_request.
RequestConfig ==
    /\ enrol.pc = "shipping"
    /\ enrol' = [enrol EXCEPT
            !.pc = "configured",
            !.requests = @ \cup {Request(enrol, "/agent_config", enrol.presents)}]
    /\ UNCHANGED but_enrol

\* send_new_config: the config-applied note, through self.make_request.
SendNewConfig ==
    /\ enrol.pc = "configured"
    /\ enrol' = [enrol EXCEPT
            !.pc = "running",
            !.requests = @ \cup {Request(enrol, "/store_data (config applied)",
                                         enrol.presents)}]
    /\ UNCHANGED but_enrol

\* An agent process on a machine with these files.
Enrolling(key, crt) ==
    [pc |-> "main", key |-> key, crt |-> crt, presents |-> FALSE,
     answer |-> "none", requests |-> {}]

InitEnrol == enrol = Enrolling("none", "none")

NextEnrol ==
    \/ \E newkey \in Moduli : ClientMain(newkey)
    \/ \E answer \in FetchAnswers : FetchCertificate(answer)
    \/ RequestTime
    \/ ShipData
    \/ RequestConfig
    \/ SendNewConfig

\* ------------------------------------------------------------------------
\* StorageManager
\* ------------------------------------------------------------------------
StorageNames == {"uptime+1", "ping+2"}

\* The dicts a sensor keeps: sets of (key, value).
StorageMaps == SUBSET ({"test"} \X {"value", "other"})

\* A row of sensorstorage for a key: none, or its value, a text that parses
\* as the JSON of a map or does not parse.
NoRow == [row |-> FALSE, parses |-> FALSE, map |-> {}]
Corrupt == [row |-> TRUE, parses |-> FALSE, map |-> {}]

\* json.dumps(dict(store))
JsonDumps(map) == [row |-> TRUE, parses |-> TRUE, map |-> map]

Rows == {NoRow, Corrupt} \cup {JsonDumps(map) : map \in StorageMaps}

\* cursor.fetchone() after the SELECT of the value: None, or the row as a
\* tuple of one column.
Fetchone(table, name) ==
    IF table[name].row
    THEN [type |-> "tuple", parses |-> FALSE, map |-> {},
          columns |-> <<table[name]>>]
    ELSE [type |-> "NoneType", parses |-> FALSE, map |-> {}, columns |-> <<>>]

\* json.loads: of a str that parses, its value; of anything else, an
\* exception (ValueError for a text, TypeError for a tuple or None).
JsonLoads(x) ==
    IF x.type = "str" /\ x.parses
    THEN [raised |-> FALSE, value |-> x.map]
    ELSE [raised |-> TRUE, value |-> {}]

\* No storage of that name in self.storages.
NoStorage == [held |-> FALSE, map |-> {}]

\* StorageManager.get_storage: the storage held, or a new one made of what
\* json.loads gives for the fetched row, {} when it raises.
GetStorage(name) ==
    /\ storage.open
    /\ IF storage.storages[name].held
       THEN storage' = storage
       ELSE LET loaded == JsonLoads(Fetchone(storage.table, name))
                storage_data == IF loaded.raised THEN {} ELSE loaded.value IN
            storage' = [storage EXCEPT
                !.storages[name] = [held |-> TRUE, map |-> storage_data]]
    /\ UNCHANGED but_storage

\* A sensor process sets or deletes a key of its storage.
StorageWrite(name, map) ==
    /\ storage.open
    /\ storage.storages[name].held
    /\ storage' = [storage EXCEPT !.storages[name].map = map]
    /\ UNCHANGED but_storage

\* StorageManager.shutdown: INSERT OR REPLACE of every storage held, commit.
StorageShutdown ==
    /\ storage.open
    /\ storage' = [storage EXCEPT
            !.open = FALSE,
            !.table = [name \in StorageNames |->
                        IF storage.storages[name].held
                        THEN JsonDumps(storage.storages[name].map)
                        ELSE @[name]]]
    /\ UNCHANGED but_storage

\* The next agent process: StorageManager.__init__ on the same database.
StorageOpen ==
    /\ ~ storage.open
    /\ storage' = [storage EXCEPT
            !.open = TRUE,
            !.storages = [name \in StorageNames |-> NoStorage]]
    /\ UNCHANGED but_storage

\* A StorageManager opened on a database with this table.
Opened(table) ==
    [open |-> TRUE, table |-> table,
     storages |-> [name \in StorageNames |-> NoStorage]]

InitStorage == storage = Opened([name \in StorageNames |-> NoRow])

NextStorage ==
    \/ \E name \in StorageNames : GetStorage(name)
    \/ \E name \in StorageNames, map \in StorageMaps : StorageWrite(name, map)
    \/ StorageShutdown
    \/ StorageOpen

\* ------------------------------------------------------------------------
\* Agent: the config document, its file and the reserved sensors
\* ------------------------------------------------------------------------
\* The sensor kinds that save_config takes out of the config.
ReservedKinds == {"_error", "_conf_applied"}

\* One item of config['sensors'].  complete: it has the five required
\* properties, each of its type, and no other property.
Descriptor(sensor, cid, config, complete) ==
    [sensor |-> sensor, config_id |-> cid, config |-> config,
     complete |-> complete]

NoConfig == [sampling_period |-> 0, memory_limit |-> 0]

Descriptors ==
    {Descriptor("_error", "E1", NoConfig, TRUE),
     Descriptor("_error", "E2", NoConfig, TRUE),
     Descriptor("_conf_applied", "C1", NoConfig, TRUE),
     Descriptor(Kind("B"), "B", [sampling_period |-> 1, memory_limit |-> 1024],
                FALSE)}
    \cup {Descriptor(Kind("A"), "A", config, TRUE) : config \in Configs}

\* The documents a collector (or a config file) can hold: with or without
\* the property 'sensors', up to two items.
Documents ==
    {[has_sensors |-> FALSE, sensors |-> <<>>]}
    \cup {[has_sensors |-> TRUE, sensors |-> s] :
            s \in {<<>>} \cup {<<d>> : d \in Descriptors}
                  \cup {<<d, e>> : d, e \in Descriptors}}

\* yaml.safe_load('sensors: []')
NoSensors == [has_sensors |-> TRUE, sensors |-> <<>>]

\* jsonschema.validate(config, config_schema) does not raise: 'sensors' is
\* required, every item is complete, and the items are unique.
ValidateConfig(doc) ==
    /\ doc.has_sensors
    /\ \A i \in DOMAIN doc.sensors : doc.sensors[i].complete
    /\ \A i, j \in DOMAIN doc.sensors :
            i /= j => doc.sensors[i] /= doc.sensors[j]

\* The loop of save_config over list(config['sensors']): the ids of the
\* reserved descriptors are kept, those of a kind that is absent stay.
RECURSIVE InternSensors(_, _, _)
InternSensors(ids, sensors, k) ==
    IF k > Len(sensors) THEN ids
    ELSE InternSensors(
            IF sensors[k].sensor = "_error"
            THEN [ids EXCEPT !.error_id = sensors[k].config_id]
            ELSE IF sensors[k].sensor = "_conf_applied"
            THEN [ids EXCEPT !.config_applied_id = sensors[k].config_id]
            ELSE ids,
            sensors, k + 1)

\* config['sensors'] after the loop's remove() calls.
IsWorker(d) == d.sensor \notin ReservedKinds
Stripped(sensors) == SelectSeq(sensors, IsWorker)

\* AgentErrorLogHandler.emit for a record of level ERROR, or no handler on
\* the logger: what the call of self.log.error puts on the queue.
LogError(c) ==
    [c EXCEPT !.last_error = [logged |-> TRUE, config_id |-> c.handler]]

\* Agent.save_config that applies whatever document it is given.
SaveConfigUnchecked(c, doc) ==
    LET ids == InternSensors(c.intern_sensors, doc.sensors, 1) IN
    [c EXCEPT !.intern_sensors = ids,
              !.agentconfig = Stripped(doc.sensors),
              !.configfile = [exists |-> TRUE,
                              sensors |-> Stripped(doc.sensors)],
              !.applied = ids.config_applied_id]

\* Agent.save_config, with send_new_config
SaveConfig(c, doc) ==
    IF ~ ValidateConfig(doc)
    THEN LogError(c)
    ELSE LET ids == InternSensors(c.intern_sensors, doc.sensors, 1) IN
         [c EXCEPT !.intern_sensors = ids,
                   !.agentconfig = Stripped(doc.sensors),
                   !.configfile = [exists |-> TRUE,
                                   sensors |-> Stripped(doc.sensors)],
                   !.applied = ids.config_applied_id]

\* new_sensors of _spawn_sensors, from the list self.agentconfig['sensors']
NewSensors(sensors) ==
    [cid \in {sensors[i].config_id : i \in DOMAIN sensors} |->
        LET k == CHOOSE i \in DOMAIN sensors :
                    /\ sensors[i].config_id = cid
                    /\ \A j \in DOMAIN sensors :
                            sensors[j].config_id = cid => j <= i
        IN sensors[k].config]

NoOrphans == [cid \in ConfigIds |-> 0]

\* Agent.__init__ (with load_config) and Agent.run up to its loop, in a
\* process that finds the config file `file`.  last_doc (the document the
\* collector served last), last_error (what the last call of log.error since
\* then put on the queue) and step (the operation that led here) record the
\* history; applied is the id send_new_config reported under.
Started(file, last_doc) ==
    LET fresh == [agentconfig |-> <<>>,
                  configfile |-> file,
                  intern_sensors |-> [error_id |-> "None",
                                      config_applied_id |-> "None"],
                  handler |-> "None",
                  subprocesses |-> <<>>,
                  applied |-> "None",
                  last_error |-> [logged |-> FALSE, config_id |-> "None"],
                  last_doc |-> last_doc,
                  step |-> "start"]
        loaded == SaveConfig(fresh,
                             IF file.exists
                             THEN [has_sensors |-> TRUE, sensors |-> file.sensors]
                             ELSE NoSensors)
    IN [loaded EXCEPT !.handler = loaded.intern_sensors.error_id,
                      !.subprocesses = <<InternalObject("Receiver"),
                                         InternalObject("Shipper")>>]

NoFile == [exists |-> FALSE, sensors |-> <<>>]

\* The config files save_config writes.
ConfigFiles ==
    {NoFile} \cup {[exists |-> TRUE, sensors |-> Stripped(doc.sensors)] :
                    doc \in {d \in Documents : ValidateConfig(d)}}

\* The list once every sensor process has read the configs it was sent
\* (Sensor.run, the head of its loop): the mailboxes are empty again.
Settled(subs) ==
    [i \in DOMAIN subs |->
        IF subs[i].cls = "Sensor"
        THEN [subs[i] EXCEPT !.config_queue = <<>>, !.do_config = FALSE,
                             !.child_config = subs[i].config]
        ELSE subs[i]]

\* get_remote_config that got the document doc, then _spawn_sensors; the
\* sensors run on until the next document.
ConfigReceived(doc) ==
    LET saved == SaveConfig([conf EXCEPT
                                !.last_doc = [received |-> TRUE, doc |-> doc],
                                !.step = "config",
                                !.last_error = [logged |-> FALSE,
                                                config_id |-> "None"]],
                            doc)
        st == SpawnSensors(Operand(saved.subprocesses, NoOrphans),
                           NewSensors(saved.agentconfig))
    IN /\ conf' = [saved EXCEPT !.subprocesses = Settled(st.subprocesses)]
       /\ UNCHANGED but_conf

\* A call of self.log.error in the agent's process.
ErrorLogged ==
    /\ conf' = [LogError(conf) EXCEPT !.step = "error"]
    /\ UNCHANGED but_conf

\* The agent's process ends and a new one is started on the same files.
AgentRestarted ==
    /\ conf' = Started(conf.configfile, conf.last_doc)
    /\ UNCHANGED but_conf

InitConf ==
    conf = Started(NoFile, [received |-> FALSE, doc |-> NoSensors])

NextConf ==
    \/ \E doc \in Documents : ConfigReceived(doc)
    \/ ErrorLogged
    \/ AgentRestarted

\* ------------------------------------------------------------------------
\* Sensor: the config mailbox of one periodic worker
\* ------------------------------------------------------------------------
\* A periodic sensor as _spawn_sensors started it, its process at the head
\* of its loop.  sup_pc is the Supervisor's place in reconfigure(); pushes
\* counts the reconfigure() calls that changed the config; begun: the head
\* of the loop the worker is in was entered after the last of them returned;
\* ticked: the worker has been through a head entered after it.
Spawned(config) ==
    [obj |-> SensorObject("A", Kind("A"), config, MemoryLimit(config)),
     sup_pc |-> "idle", child_pc |-> "top", pushes |-> 0,
     begun |-> FALSE, ticked |-> TRUE]

\* Agent._spawn_sensors calls Sensor.reconfigure(config) with a config that
\* differs from the one the Sensor object holds: self.config = config,
\* self.do_config.set()
ReconfigureSet(config) ==
    /\ mailbox.sup_pc = "idle"
    /\ mailbox.pushes < MaxDocs
    /\ ReconfigureNeeded(mailbox.obj.config, config)
    /\ mailbox' = [mailbox EXCEPT !.obj.config = config,
                                  !.obj.do_config = TRUE,
                                  !.sup_pc = "put",
                                  !.pushes = @ + 1,
                                  !.begun = FALSE,
                                  !.ticked = FALSE]
    /\ UNCHANGED but_mailbox

\* self.config_queue.put(self.config), and reconfigure returns: the object
\* is as Reconfigured leaves it.
ReconfigurePut ==
    /\ mailbox.sup_pc = "put"
    /\ mailbox' = [mailbox EXCEPT
                        !.obj = Reconfigured(@, mailbox.obj.config),
                        !.sup_pc = "idle",
                        !.begun = FALSE,
                        !.ticked = FALSE]
    /\ UNCHANGED but_mailbox

\* Sensor.run, head of the loop: if self.do_config.is_set()
TickHead ==
    /\ mailbox.child_pc = "top"
    /\ mailbox' = IF mailbox.obj.do_config
                  THEN [mailbox EXCEPT !.child_pc = "get",
                                       !.begun = (mailbox.sup_pc = "idle")]
                  ELSE [mailbox EXCEPT !.child_pc = "run",
                                       !.ticked = (mailbox.sup_pc = "idle")]
    /\ UNCHANGED but_mailbox

\* self.config = SensorConfig(self.config_queue.get()), reload: get() waits
\* for a config.
TickGet ==
    /\ mailbox.child_pc = "get"
    /\ mailbox.obj.config_queue /= <<>>
    /\ mailbox' = [mailbox EXCEPT
                        !.obj.child_config = Head(mailbox.obj.config_queue),
                        !.obj.config_queue = Tail(@),
                        !.child_pc = "clear"]
    /\ UNCHANGED but_mailbox

\* self.do_config.clear()
TickClear ==
    /\ mailbox.child_pc = "clear"
    /\ mailbox' = [mailbox EXCEPT !.obj.do_config = FALSE,
                                  !.child_pc = "run",
                                  !.ticked = mailbox.begun]
    /\ UNCHANGED but_mailbox

\* The sleep, the sensor's run and send_results, back to the head.
TickRun ==
    /\ mailbox.child_pc = "run"
    /\ mailbox' = [mailbox EXCEPT !.child_pc = "top"]
    /\ UNCHANGED but_mailbox

InitMailbox ==
    mailbox = Spawned([sampling_period |-> 1, memory_limit |-> 1024])

NextMailbox ==
    \/ \E config \in Configs : ReconfigureSet(config)
    \/ ReconfigurePut
    \/ TickHead
    \/ TickGet
    \/ TickClear
    \/ TickRun

\* ------------------------------------------------------------------------
\* One Shipper and the answers of a collector: Shipper.run and _reqdone
\* ------------------------------------------------------------------------
\* The rows two sensors leave in the Spool: sensor A ran at both instants and
\* sent on its streams 'default' and 'error' (one timestamp per run), sensor
\* B ran once.
SpoolRows ==
    {Stored([id |-> 2 * (stamp - 1) + (IF stream = "default" THEN 1 ELSE 2),
             stamp |-> stamp, config_id |-> "A", stream |-> stream,
             data |-> Sample]) : stamp \in Stamps, stream \in {"default", "error"}}
    \cup {Stored([id |-> 5, stamp |-> 1, config_id |-> "B",
                  stream |-> "default", data |-> Sample])}

\* response.text as json.loads sees it: not JSON (ValueError), a JSON value
\* that is not an object, or an object with some of the keys "status" and
\* "data" (a list of pairs, of the batch or not).
Answers ==
    [json : {"none", "other"}, keys : {{}}, status : {""}, data : {{}}]
    \cup [json : {"object"}, keys : {{}}, status : {""}, data : {{}}]
    \cup [json : {"object"}, keys : {{"status"}},
          status : {"OK", "Not_all_saved"}, data : {{}}]
    \cup [json : {"object"}, keys : {{"status", "data"}},
          status : {"OK", "Not_all_saved"}, data : SUBSET Pairs]

\* The status codes of a response: no connection, success, rejected, other.
StatusCodes == {0, 200, 400, 500}

\* data_saved['status'] raises TypeError (not an object) or KeyError, or
\* data_saved['data'] raises KeyError.
ReqdoneRaises(status_code, text) ==
    /\ Deleting(status_code)
    /\ text.json /= "none"
    /\ \/ text.json = "other"
       \/ "status" \notin text.keys
       \/ text.status = "Not_all_saved" /\ "data" \notin text.keys

\* The DELETE is reached.
ReqdoneDeletes(status_code, text) ==
    /\ Deleting(status_code)
    /\ text.json = "object"
    /\ ~ ReqdoneRaises(status_code, text)

\* The Receiver commits a drain that holds the row.
ShipmentInsert(row) ==
    /\ row \notin shipment.table
    /\ shipment' = [shipment EXCEPT !.table = @ \cup {row}]
    /\ UNCHANGED but_shipment

\* One pass of Shipper.run up to the PUT request: data = cursor.fetchall().
ShipmentSelect ==
    /\ shipment.pc = "sleep"
    /\ \E S \in SelectSets(shipment.table) :
        /\ S /= {}
        /\ \A r \in S : Unpacks(r)
        /\ shipment' = [shipment EXCEPT !.data = S, !.pc = "request"]
    /\ UNCHANGED but_shipment

\* Shipper._reqdone as the response hook of the request; an exception of
\* the hook is no RequestException and ends Shipper.run and the process.
ShipmentReqdone(status_code, text) ==
    /\ shipment.pc = "request"
    /\ LET to_remove ==
               ToRemove(PairsOf(Fetchall(shipment.data)), text)
           parameters ==
               IF text.status = "Not_all_saved"
               THEN 2 * Cardinality(text.data)
               ELSE 2 * Cardinality(shipment.data) IN
       shipment' =
           IF ReqdoneRaises(status_code, text)
           THEN [shipment EXCEPT !.pc = "dead"]
           ELSE IF ReqdoneDeletes(status_code, text)
           THEN [shipment EXCEPT
                    !.table = DeleteRows(@, to_remove),
                    !.bound = parameters,
                    !.pc = "sleep"]
           ELSE [shipment EXCEPT !.pc = "sleep"]
    /\ UNCHANGED but_shipment

\* The Agent's loop finds the Shipper dead and starts a new one on the same
\* database.
ShipmentRestarted ==
    /\ shipment.pc = "dead"
    /\ shipment' = [shipment EXCEPT !.pc = "sleep", !.data = {}]
    /\ UNCHANGED but_shipment

InitShipment ==
    shipment = [table |-> {}, data |-> {}, pc |-> "sleep", bound |-> 0]

NextShipment ==
    \/ \E row \in SpoolRows : ShipmentInsert(row)
    \/ ShipmentSelect
    \/ \E status_code \in StatusCodes, text \in Answers :
            ShipmentReqdone(status_code, text)
    \/ ShipmentRestarted

\* ------------------------------------------------------------------------
\* Agent.cleanup and StorageManager.shutdown, with the sensors still running
\* ------------------------------------------------------------------------
\* The storage name of the sensor of a config_id.
StorageOf == [cid \in ConfigIds |-> IF cid = "A" THEN "uptime+1" ELSE "ping+2"]

\* for subprocess in self._subprocesses: subprocess.stop()
CleanupStop ==
    /\ closing.pc = "loop"
    /\ closing' = [closing EXCEPT
            !.sensors = [cid \in ConfigIds |-> Stop(@[cid])],
            !.pc = "stopped"]
    /\ UNCHANGED but_closing

\* storage_manager.shutdown(), up to the commit: json.dumps(dict(store)) of
\* every storage is upserted.
CleanupFlush ==
    /\ closing.pc = "stopped"
    /\ closing' = [closing EXCEPT
            !.table = [name \in StorageNames |-> JsonDumps(closing.stores[name])],
            !.pc = "flushed"]
    /\ UNCHANGED but_closing

\* self.sqliteconn.close(); self.manager.shutdown()
CleanupManagerShutdown ==
    /\ closing.pc = "flushed"
    /\ closing' = [closing EXCEPT !.pc = "down"]
    /\ UNCHANGED but_closing

\* A sensor whose process has not exited sets or deletes a key of its
\* storage, a dict of the manager process (which must be up).
WorkerWrite(cid, map) ==
    /\ IsAlive(closing.sensors[cid])
    /\ closing.pc /= "down"
    /\ closing.stores[StorageOf[cid]] /= map
    /\ closing' = [closing EXCEPT !.stores[StorageOf[cid]] = map]
    /\ UNCHANGED but_closing

\* A periodic sensor finds running cleared at the head of its loop and
\* returns from run(); an event-driven one dies of its SIGTERM.
WorkerExits(cid) ==
    /\ closing.sensors[cid].state \in {"stopping", "terminating"}
    /\ closing' = [closing EXCEPT !.sensors[cid].state = "dead"]
    /\ UNCHANGED but_closing

InitClosing ==
    closing = [sensors |-> [cid \in ConfigIds |->
                                SensorObject(cid, Kind(cid),
                                    [sampling_period |-> 1, memory_limit |-> 1024],
                                    1024)],
               stores |-> [name \in StorageNames |-> {}],
               table |-> [name \in StorageNames |-> NoRow],
               pc |-> "loop"]

NextClosing ==
    \/ CleanupStop
    \/ CleanupFlush
    \/ CleanupManagerShutdown
    \/ \E cid \in ConfigIds, map \in StorageMaps : WorkerWrite(cid, map)
    \/ \E cid \in ConfigIds : WorkerExits(cid)

\* ------------------------------------------------------------------------
\* The schedule of a periodic worker: the loop of Sensor.run and its timer
\* ------------------------------------------------------------------------
\* sys.platform of the agent.
Platforms == {"linux2", "win32"}

\* "timer" is monotime.monotonic on linux2 and darwin, time.time elsewhere.
Monotonic(platform) == platform \in {"linux2", "darwin"}

\* timer() - runtime: the seconds since runtime was taken, on the wall clock
\* together with the steps that clock has made since.
Timer(platform, since, drift) ==
    IF Monotonic(platform) THEN since ELSE since + drift

\* sleeptime = sampling_period - (timer() - runtime), 0 if negative.
Sleeptime(sampling_period, elapsed) ==
    Max(0, sampling_period - elapsed)

\* Seconds the sensor's run can last, and seconds a step of the wall clock
\* moves it.
RunSeconds == {0, 1, 2, 3}
ClockSteps == {0 - 2, 0 - 1, 1, 2}

\* The wall clock is set (by the operator, by NTP) between two readings.
ClockStep(j) ==
    /\ schedule.drift = 0
    /\ schedule' = [schedule EXCEPT !.drift = j]
    /\ UNCHANGED but_schedule

\* Head of the loop up to the start of the run: the sleep time is computed
\* and slept (time.sleep returns in time or late), runtime = timer().
ScheduleStart(late) ==
    /\ schedule.pc = "head"
    /\ schedule.runs <= MaxRuns
    /\ LET elapsed == Timer(schedule.platform, schedule.since, schedule.drift)
           to_sleep == Sleeptime(schedule.sampling_period, elapsed)
           slept == IF to_sleep > 0 THEN to_sleep + late ELSE 0 IN
       schedule' = [schedule EXCEPT
            !.pc = "run",
            !.runs = @ + 1,
            !.finished = schedule.since,
            !.sleeptime = to_sleep,
            !.gap = schedule.since + slept,
            !.since = 0,
            !.drift = 0]
    /\ UNCHANGED but_schedule

\* sensor_instance.run() under its timeout, and the check of the parent.
ScheduleRun(lasts) ==
    /\ schedule.pc = "run"
    /\ schedule' = [schedule EXCEPT !.pc = "head", !.since = @ + lasts]
    /\ UNCHANGED but_schedule

\* runtime = timer() in front of the loop. since: seconds, on a monotonic
\* clock, since runtime was taken; gap, finished, sleeptime: of the last
\* start, the seconds since the start before it, the seconds the run before
\* it had taken, and the sleep time computed.
Scheduled(platform, sampling_period) ==
    [platform |-> platform, sampling_period |-> sampling_period,
     pc |-> "head", runs |-> 0, since |-> 0, drift |-> 0,
     finished |-> 0, sleeptime |-> 0, gap |-> 0]

InitSchedule == schedule = Scheduled("linux2", 1)

NextSchedule ==
    \/ \E j \in ClockSteps : ClockStep(j)
    \/ \E late \in {0, 1} : ScheduleStart(late)
    \/ \E lasts \in RunSeconds : ScheduleRun(lasts)

\* ------------------------------------------------------------------------
\* _spawn_sensors on descriptors whose sensor kind has no module
\* ------------------------------------------------------------------------
\* importlib.import_module('whmonit.client.sensors.<sensor>.linux_01') in
\* Sensor.__init__ finds the module; "nosuch" is a string of the schema's
\* minLength for which there is none.
Loadable(sensor) == sensor \in {"uptime", "snmp_passive"}

\* The schema-valid documents, as new_sensors: every config_id with the
\* kind it always has or with a kind that has no module.
KindDocs ==
    UNION {[D -> [sensor : {"nosuch"}, config : Configs]
                    \cup {[sensor |-> Kind("A"), config |-> c] : c \in Configs}
                    \cup {[sensor |-> Kind("B"), config |-> c] : c \in Configs}] :
            D \in SUBSET ConfigIds}

\* The second loop of _spawn_sensors from position k: the body as in
\* ApplyDescriptor, but Sensor(...) in _start_subprocess raises ImportError
\* for a kind without a module, which neither _spawn_sensors nor Agent.run
\* catches: the loop ends there.
RECURSIVE ApplyLoading(_, _, _)
ApplyLoading(st, doc, k) ==
    IF k > Len(CidOrder) THEN [st |-> st, raised |-> FALSE]
    ELSE LET cid == CidOrder[k] IN
         IF cid \notin DOMAIN doc THEN ApplyLoading(st, doc, k + 1)
         ELSE IF /\ SensorIndex(st.subprocesses, cid) = 0
                 /\ ~ Loadable(doc[cid].sensor)
         THEN [st |-> st, raised |-> TRUE]
         ELSE ApplyLoading(ApplyDescriptor(st, cid, doc[cid].config), doc, k + 1)

\* One pass of the main loop with a new document: save_config accepts it,
\* _spawn_sensors applies it; an exception ends Agent.run.
LoadingPass(doc) ==
    /\ loading.pc = "top"
    /\ \A cid \in DOMAIN doc :
            Loadable(doc[cid].sensor) => doc[cid].sensor = Kind(cid)
    /\ LET res == ApplyLoading(
                    RemoveGone(Operand(loading.subprocesses, NoOrphans), doc, 1),
                    doc, 1) IN
       loading' = [agentconfig |-> doc,
                   subprocesses |-> Settled(res.st.subprocesses),
                   pc |-> IF res.raised THEN "crashed" ELSE "top"]
    /\ UNCHANGED but_loading

InitLoading ==
    loading = [agentconfig |-> [cid \in {} |-> <<>>],
               subprocesses |-> <<>>, pc |-> "top"]

NextLoading ==
    \E doc \in KindDocs : LoadingPass(doc)

InitAgent ==
    /\ agentconfig = EmptyDoc
    /\ subprocesses = <<>>
    /\ orphans = [cid \in ConfigIds |-> 0]
    /\ agent_pc = "init"
    /\ running = TRUE
    /\ recheck_config_timeout = 1
    /\ docs_served = 0
    /\ faults = 0
    /\ reapplied = FALSE
    /\ overdue = {}

NextAgent ==
    \/ \E answer \in TimeAnswers : AgentRunStart(answer)
    \/ \E answer \in TimeAnswers : AgentRunNoTime(answer)
    \/ \E doc \in ConfigDocs, valid \in BOOLEAN : AgentConfigPass(doc, valid)
    \/ \E signalled \in BOOLEAN : AgentConfigUnreachable(signalled)
    \/ AgentNoConfigPass
    \/ \E exited \in BOOLEAN : AgentScan(exited)
    \/ AgentTerminate
    \/ AgentCleanup
    \/ \E i \in DOMAIN subprocesses : ProcessExits(i)
    \/ \E cid \in ConfigIds : OrphanExits(cid)
    \/ \E i \in DOMAIN subprocesses : ProcessDies(i)
    \/ \E i \in DOMAIN subprocesses : SensorGrows(i)
    \/ \E i \in DOMAIN subprocesses : SensorTick(i)

\* ------------------------------------------------------------------------
\* The pipeline
\* ------------------------------------------------------------------------
InitPipeline ==
    /\ queue = <<>>
    /\ produced = 0
    /\ receiver_pc = "sleep"
    /\ uncommitted = {}
    /\ sensordata = {}
    /\ shipper_pc = "sleep"
    /\ data_to_remove = <<>>
    /\ sleeptime = 5
    /\ confails = 1
    /\ outage = 0
    /\ response = NoResponse
    /\ accepted = {}
    /\ acked = {}

Init ==
    /\ InitPipeline
    /\ InitAgent
    /\ InitPacing
    /\ InitWorker("uptime")
    /\ InitTime
    /\ InitEnrol
    /\ InitStorage
    /\ InitConf
    /\ InitFramed
    /\ InitMailbox
    /\ InitShipment
    /\ InitClosing
    /\ InitSchedule
    /\ InitLoading

\* The Shipper after 198 failed connections in a row.
InitOutage ==
    /\ queue = <<>>
    /\ produced = 0
    /\ receiver_pc = "sleep"
    /\ uncommitted = {}
    /\ sensordata = {}
    /\ shipper_pc = "sleep"
    /\ data_to_remove = <<>>
    /\ sleeptime = 5
    /\ confails = ConfailsMax - 1
    /\ outage = 0
    /\ response = NoResponse
    /\ accepted = {}
    /\ acked = {}
    /\ InitAgent
    /\ InitPacing
    /\ InitWorker("uptime")
    /\ InitTime
    /\ InitEnrol
    /\ InitStorage
    /\ InitConf
    /\ InitFramed
    /\ InitMailbox
    /\ InitShipment
    /\ InitClosing
    /\ InitSchedule
    /\ InitLoading

\* 200 {"status": "OK"}
OkBody == [valid |-> TRUE, status |-> "OK", data |-> {}, reason |-> {}]

\* A str whose content is U+00E9 in UTF-8.
NonAscii == PyValue("str", 0, 0, <<195, 169>>)

\* The Spools a Receiver can have filled by the time the sensors fall
\* silent: up to MaxData rows of the two kinds of str.
Backlogs ==
    UNION {{{Stored([id |-> i, stamp |-> f[i].stamp,
                     config_id |-> f[i].config_id, stream |-> "default",
                     data |-> f[i].data]) : i \in D} :
                f \in [D -> [stamp : Stamps, config_id : ConfigIds,
                             data : {Sample, NonAscii}]]} :
            D \in SUBSET (1..MaxData)}

\* The pipeline with a backlog, no sensor sending and a collector that
\* answers 200 OK to every request.
InitBacklog ==
    /\ queue = <<>>
    /\ produced = MaxData
    /\ receiver_pc = "sleep"
    /\ uncommitted = {}
    /\ sensordata \in Backlogs
    /\ shipper_pc = "sleep"
    /\ data_to_remove = <<>>
    /\ sleeptime = 5
    /\ confails = 1
    /\ outage = 0
    /\ response = NoResponse
    /\ accepted = sensordata
    /\ acked = {}

\* (The Receiver finds its queue empty at every drain and changes nothing.)
NextDrain ==
    \/ ShipperSelect
    \/ ShipperUnpackRaises
    \/ ShipperRestarted
    \/ Reqdone(200, OkBody)

\* A str cut in the middle of a UTF-8 character.
Truncated == PyValue("str", 0, 0, <<195>>)

\* The messages sensors can have put on Agent._queue while the Receiver
\* slept: up to MaxData messages of the two kinds of str.
Inboxes ==
    UNION {{[i \in 1..n |-> [id |-> i, stamp |-> f[i].stamp,
                             config_id |-> f[i].config_id,
                             stream |-> "default", data |-> f[i].data]] :
                f \in [1..n -> [stamp : Stamps, config_id : ConfigIds,
                                data : {Sample, Truncated}]]} :
            n \in 0..MaxData}

\* The pipeline with a filled queue, an empty Spool and no sensor sending.
InitInbox ==
    /\ queue \in Inboxes
    /\ produced = MaxData
    /\ receiver_pc = "sleep"
    /\ uncommitted = {}
    /\ sensordata = {}
    /\ shipper_pc = "sleep"
    /\ data_to_remove = <<>>
    /\ sleeptime = 5
    /\ confails = 1
    /\ outage = 0
    /\ response = NoResponse
    /\ accepted = {}
    /\ acked = {}

\* The Receiver alone, with the Agent restarting it.
NextIntake ==
    \/ ReceiverWake
    \/ ReceiverStores
    \/ ReceiverPackRaises
    \/ ReceiverCommit
    \/ ReceiverRestarted

NextPipeline ==
    \/ \E cid \in ConfigIds, stamp \in Stamps, stream \in Streams :
            SensorSendResults(cid, stamp, stream)
    \/ ReceiverWake
    \/ ReceiverInsert
    \/ ReceiverCommit
    \/ ShipperSelect
    \/ ShipperRequestException
    \/ \E r \in Responses(Range(data_to_remove)) : Reqdone(r.status_code, r.text)

Next == NextPipeline \/ NextDrain \/ NextIntake \/ NextAgent \/ NextPacing \/ NextWorker \/ NextTime \/ NextEnrol \/ NextStorage \/ NextConf \/ NextFramed \/ NextMailbox \/ NextShipment \/ NextClosing \/ NextSchedule \/ NextLoading

\* The whole agent.
Spec == Init /\ [][Next]_vars

\* The Receiver, the Spool and the Shipper.
SpecPipeline == Init /\ [][NextPipeline]_vars

\* The Shipper at the end of a long outage of the collector.
SpecOutage == InitOutage /\ [][NextPipeline]_vars

\* The Agent main loop and the processes it supervises.
SpecAgent == Init /\ [][NextAgent]_vars

\* The sleep time of the Shipper over passes of any size.
SpecPacing == Init /\ [][NextPacing]_vars

\* One periodic sensor process, for each of the sensors.
InitSensors ==
    /\ InitPipeline
    /\ InitAgent
    /\ InitPacing
    /\ InitTime
    /\ InitEnrol
    /\ InitStorage
    /\ InitConf
    /\ InitFramed
    /\ InitMailbox
    /\ InitShipment
    /\ InitClosing
    /\ InitSchedule
    /\ InitLoading
    /\ \E sensor \in WorkerSensors : InitWorker(sensor)

SpecWorker == InitSensors /\ [][NextWorker]_vars

\* Calls of check_millisecond_timestamp.
SpecTime == Init /\ [][NextTime]_vars

\* The start of an agent process, with or without key and certificate.
InitMachines ==
    /\ InitPipeline
    /\ InitAgent
    /\ InitPacing
    /\ InitWorker("uptime")
    /\ InitTime
    /\ \E key, crt \in Moduli \cup {"none"} : enrol = Enrolling(key, crt)
    /\ InitStorage
    /\ InitConf
    /\ InitFramed
    /\ InitMailbox
    /\ InitShipment
    /\ InitClosing
    /\ InitSchedule
    /\ InitLoading

SpecEnrol == InitMachines /\ [][NextEnrol]_vars

\* A StorageManager over the lives of several agent processes, on a database
\* that is new or holds a text that does not parse.
InitDatabases ==
    /\ InitPipeline
    /\ InitAgent
    /\ InitPacing
    /\ InitWorker("uptime")
    /\ InitTime
    /\ InitEnrol
    /\ \E table \in [StorageNames -> {NoRow, Corrupt}] : storage = Opened(table)
    /\ InitConf
    /\ InitFramed
    /\ InitMailbox
    /\ InitShipment
    /\ InitClosing
    /\ InitSchedule
    /\ InitLoading

SpecStorage == InitDatabases /\ [][NextStorage]_vars

\* The agent's config alone, in a process started on any config file that
\* save_config can have written, or on none.
InitConfigs ==
    /\ InitPipeline
    /\ InitAgent
    /\ InitPacing
    /\ InitWorker("uptime")
    /\ InitTime
    /\ InitEnrol
    /\ InitStorage
    /\ \E file \in ConfigFiles :
            conf = Started(file, [received |-> FALSE, doc |-> NoSensors])
    /\ InitFramed
    /\ InitMailbox
    /\ InitShipment
    /\ InitClosing
    /\ InitSchedule
    /\ InitLoading

SpecConfig == InitConfigs /\ [][NextConf]_vars

\* One serializer, packing and unpacking values of its types.
SpecFraming == Init /\ [][NextFramed]_vars

\* One periodic worker and the Supervisor's reconfigure calls, started with
\* either config.
InitWorkers ==
    /\ InitPipeline
    /\ InitAgent
    /\ InitPacing
    /\ InitWorker("uptime")
    /\ InitTime
    /\ InitEnrol
    /\ InitStorage
    /\ InitConf
    /\ InitFramed
    /\ \E config \in Configs : mailbox = Spawned(config)
    /\ InitShipment
    /\ InitClosing
    /\ InitSchedule
    /\ InitLoading
    /\ InitLoading
    /\ InitSchedule
    /\ InitLoading
    /\ InitClosing
    /\ InitSchedule
    /\ InitLoading

SpecMailbox == InitWorkers /\ [][NextMailbox]_vars

\* The backlog being shipped.  The Shipper and the Agent that restarts it
\* are processes of their own, each in a loop of bounded sleeps: neither
\* waits for ever when its next step is possible.
InitDrain ==
    /\ InitBacklog
    /\ InitAgent
    /\ InitPacing
    /\ InitWorker("uptime")
    /\ InitTime
    /\ InitEnrol
    /\ InitStorage
    /\ InitConf
    /\ InitFramed
    /\ InitMailbox
    /\ InitShipment
    /\ InitClosing
    /\ InitSchedule
    /\ InitLoading

SpecDrain ==
    /\ InitDrain
    /\ [][NextDrain]_vars
    /\ WF_vars(ShipperSelect \/ ShipperUnpackRaises \/ Reqdone(200, OkBody))
    /\ WF_vars(ShipperRestarted)

\* The Receiver draining a queue that sensors filled.
InitIntake ==
    /\ InitInbox
    /\ InitAgent
    /\ InitPacing
    /\ InitWorker("uptime")
    /\ InitTime
    /\ InitEnrol
    /\ InitStorage
    /\ InitConf
    /\ InitFramed
    /\ InitMailbox
    /\ InitShipment
    /\ InitClosing
    /\ InitSchedule
    /\ InitLoading

SpecIntake == InitIntake /\ [][NextIntake]_vars

\* One Shipper and a collector that may answer anything.
SpecShipment == Init /\ [][NextShipment]_vars

\* The shutdown of an agent with two sensors.
SpecClosing == Init /\ [][NextClosing]_vars

\* Periodic workers of both sampling periods on both kinds of platform.
InitSchedules ==
    /\ InitPipeline
    /\ InitAgent
    /\ InitPacing
    /\ InitWorker("uptime")
    /\ InitTime
    /\ InitEnrol
    /\ InitStorage
    /\ InitConf
    /\ InitFramed
    /\ InitMailbox
    /\ InitShipment
    /\ InitClosing
    /\ \E platform \in Platforms, config \in Configs :
            schedule = Scheduled(platform, config.sampling_period)
    /\ InitLoading

SpecSchedule == InitSchedules /\ [][NextSchedule]_vars

\* An agent whose collector serves documents naming unknown kinds.
SpecLoading == Init /\ [][NextLoading]_vars

\* ------------------------------------------------------------------------
\* Properties of the pipeline
\* ------------------------------------------------------------------------
\* The step is a call of _reqdone, for the response it leaves in "response".
Handled ==
    /\ shipper_pc = "request"
    /\ shipper_pc' = "sleep"
    /\ Reqdone(response'.status_code, response'.text)

\* The rows a step deletes from the Spool.
Deleted == sensordata \ sensordata'

\* The rows of the table whose config_id is that of some pair and whose stamp
\* is that of some pair.
CrossRows(table, pairs) ==
    {row \in table : /\ \E p \in pairs : row.config_id = p[1]
                     /\ \E p \in pairs : row.stamp = p[2]}

\* C1: a row is deleted only by _reqdone handling a 200 or 400 response, and
\* only if its own (config_id, stamp) pair is in the ack set of that response
\* (the pairs the body lists, else all pairs of the batch sent).
C1_NoPhantomDelete ==
    [][Deleted /= {} =>
        /\ Handled
        /\ response'.status_code \in {200, 400}
        /\ \A row \in Deleted :
             Pair(row) \in (IF response'.text.status = "Not_all_saved"
                            THEN response'.text.data
                            ELSE Range(data_to_remove))]_vars

\* C2: every DataPoint of a finished drain of the Receiver is in the Spool or
\* its pair was in the to-delete list of a 200 or 400 response.
C2_AtLeastOnce ==
    \A row \in accepted : row \in sensordata \/ Pair(row) \in acked

C4_RemoveSentExceptErroneous ==
    [][(/\ Handled
        /\ response'.status_code = 200
        /\ response'.text.status \in {"OK", "ERROR_PARTIAL_STORE"})
       => Deleted = {row \in sensordata :
                        Pair(row) \in Range(data_to_remove) \ response'.text.reason}]_vars

\* C5: a response with status_code 0 deletes nothing and moves _confails up
\* by one, never above 200; while the last response is a failed connection
\* the Spool does not shrink.
C5_NoConnection ==
    [][/\ (Handled /\ response'.status_code = 0)
            => /\ sensordata' = sensordata
               /\ confails' = Min(confails + 1, 200)
       /\ response'.status_code = 0 => sensordata \subseteq sensordata'
       /\ confails' <= 200]_vars

\* C5 witness: the second failed connection in a row found the counter at
\* its clamp, with rows waiting in the Spool.
C5_Witness ==
    /\ response.status_code = 0
    /\ outage = 2
    /\ confails = 200
    /\ sensordata /= {}
    /\ data_to_remove /= <<>>

\* C6: a response with a status other than 0, 200, 400, and a 200 response
\* whose body is not JSON, leave the Spool as it was.
C6_TransientNoDelete ==
    [][(/\ Handled
        /\ \/ response'.status_code \notin {0, 200, 400}
           \/ response'.status_code = 200 /\ ~ response'.text.valid)
       => sensordata' = sensordata]_vars

\* C6 witness: a 500 response with a JSON body was handled while the rows of
\* its batch were in the Spool.
C6_Witness ==
    /\ response.status_code = 500
    /\ response.text.valid
    /\ shipper_pc = "sleep"
    /\ data_to_remove /= <<>>
    /\ \A i \in DOMAIN data_to_remove :
          \E row \in sensordata : Pair(row) = data_to_remove[i]

LiveWorkers(cid) ==
    Cardinality({i \in DOMAIN subprocesses :
                    /\ subprocesses[i].cls = "Sensor"
                    /\ subprocesses[i].config_id = cid
                    /\ IsAlive(subprocesses[i])}) + orphans[cid]

\* C8: at every instant and for every config_id, at most one sensor process
\* of that id is alive, also while a worker is terminated and replaced.
C8_AtMostOneWorker ==
    \A cid \in ConfigIds : LiveWorkers(cid) <= 1

\* The calls of one diff-and-apply pass on what the pass before it, with the
\* same document, has left.
SecondPass(doc) ==
    LET first == SpawnSensors(AgentState, doc) IN
    SpawnSensors(Operand(first.subprocesses, first.orphans), doc)

ConfigPassStep ==
    /\ agent_pc = "top"
    /\ running
    /\ recheck_config_timeout - 1 = 0
    /\ agent_pc' = "sleep"

\* The sensors of the running set that the new document keeps, by class, and
\* those of them whose config the document changes.
Kept == RunningSensors(subprocesses) \cap DOMAIN agentconfig'

KeptPeriodic == {cid \in Kept : ~ Advanced(Kind(cid))}

KeptAdvanced == {cid \in Kept : Advanced(Kind(cid))}

Changed ==
    {cid \in Kept :
        subprocesses[SensorIndex(subprocesses, cid)].config /= agentconfig'[cid]}

ScanStep ==
    /\ agent_pc = "sleep"
    /\ agent_pc' = "top"

\* The list holds a live object of the class, config_id, construction
\* arguments and memory limit of obj.
Replaced(subs, obj) ==
    \E j \in DOMAIN subs :
        /\ subs[j].cls = obj.cls
        /\ subs[j].config_id = obj.config_id
        /\ subs[j].args_config = obj.args_config
        /\ subs[j].memory_limit = obj.memory_limit
        /\ IsAlive(subs[j])

\* C11: in every pass of the main loop each process of the list that is not
\* alive is replaced, in that pass, by a new process of its class with its
\* construction arguments and memory limit.
C11_DeadReplacedInPass ==
    [][ScanStep =>
        \A i \in DOMAIN subprocesses :
            ~ IsAlive(subprocesses[i]) => Replaced(subprocesses', subprocesses[i])]_vars

\* C12: a sensor whose resident set size is above its memory limit when the
\* main loop walks the list, and that the walk leaves running, is terminated
\* by the walk of the next pass, whatever happens to the other processes.
C12_MemoryEnforcement ==
    [][ScanStep => overdue \cap Unchecked(subprocesses') = {}]_vars

\* The collector's time differs from the agent's clock by more than the bound.
Skewed(answer) ==
    \/ answer.kind = "out_of_range"
    \/ answer.kind = "timestamp" /\ Abs(answer.offset) > TimeDiff

\* C13: if the collector's time differs from the agent's clock by more than
\* the bound, in either direction, run() sets running to false and returns;
\* Receiver, Shipper and sensors are not started, the spool is not touched.
C13_ClockSkewAbort ==
    [][agent_pc = "init" =>
        \A answer \in TimeAnswers :
            Skewed(answer) /\ (AgentRunStart(answer) \/ AgentRunNoTime(answer))
                => /\ running' = FALSE
                   /\ agent_pc' = "done"
                   /\ subprocesses' = <<>>
                   /\ sensordata' = sensordata]_vars

\* The objects of a class in the list.
Objects(subs, cls) == {i \in DOMAIN subs : subs[i].cls = cls}

\* The clock check has succeeded with this answer.
PrecheckPassed(answer) ==
    answer.kind = "timestamp" /\ Abs(answer.offset) < TimeDiff

\* C14: Receiver and Shipper are each started once, only after the clock check
\* has succeeded and before any sensor; with n sensors in the config, the
\* first pass of the main loop starts n sensors, 2 + n processes in total.
C14_StartupOrdering ==
    [][/\ agent_pc' = "init" => subprocesses' = <<>>
       /\ Cardinality(Objects(subprocesses', "Receiver")) <= 1
       /\ Cardinality(Objects(subprocesses', "Shipper")) <= 1
       /\ Objects(subprocesses', "Sensor") /= {} =>
            /\ Objects(subprocesses', "Receiver") /= {}
            /\ Objects(subprocesses', "Shipper") /= {}
       /\ agent_pc = "init" =>
            /\ subprocesses = <<>>
            /\ \A answer \in TimeAnswers :
                AgentRunStart(answer) \/ AgentRunNoTime(answer) =>
                    IF PrecheckPassed(answer)
                    THEN subprocesses' = <<InternalObject("Receiver"),
                                           InternalObject("Shipper")>>
                    ELSE subprocesses' = <<>>
       /\ ConfigPassStep /\ Objects(subprocesses, "Sensor") = {} =>
            /\ SpawnSensors(AgentState, agentconfig').started = DOMAIN agentconfig'
            /\ Cardinality(Objects(subprocesses', "Sensor"))
                    = Cardinality(DOMAIN agentconfig')
            /\ Len(subprocesses') = 2 + Cardinality(DOMAIN agentconfig')]_vars

\* C14 witness: the first pass has started the two sensors of the config
\* behind Receiver and Shipper.
C14_Witness ==
    /\ agent_pc = "sleep"
    /\ docs_served = 1
    /\ faults = 0
    /\ Len(subprocesses) = 4
    /\ subprocesses[1].cls = "Receiver"
    /\ subprocesses[2].cls = "Shipper"
    /\ RunningSensors(subprocesses) = DOMAIN agentconfig
    /\ \A i \in DOMAIN subprocesses : subprocesses[i].state = "alive"

\* The main loop has been left for good.
LoopExited == agent_pc \in {"done", "crashed"}

\* C15: graceful shutdown: once a termination signal has set running to
\* false and the main loop has exited, cleanup has asked every process of the
\* list to stop (which ends with the flush of the storages), and nothing is
\* spawned or restarted afterwards.
C15_GracefulShutdown ==
    [][/\ ~ running' /\ agent_pc' \in {"done", "crashed"} =>
            /\ agent_pc' = "done"
            /\ \A i \in DOMAIN subprocesses' :
                    subprocesses'[i].state /= "alive"
       /\ LoopExited =>
            /\ Len(subprocesses') = Len(subprocesses)
            /\ \A i \in DOMAIN subprocesses :
                    subprocesses'[i].state = "alive"
                        => subprocesses[i].state = "alive"]_vars

\* ------------------------------------------------------------------------
\* Properties of the pacing
\* ------------------------------------------------------------------------
\* C16: for two consecutive batches of sizes a <= b, the sleeptime after the
\* second is at most the sleeptime after the first, and both lie in
\* [0.2, 1.0] (1..5 steps of 0.2).
C16_PacingMonotone ==
    Len(batches) = 2 /\ batches[1].size <= batches[2].size =>
        /\ batches[2].sleeptime <= batches[1].sleeptime
        /\ batches[1].sleeptime \in 1..5
        /\ batches[2].sleeptime \in 1..5

\* C16 as the code has it: the sleeptime after every batch lies in
\* [0.2, 1.0]; from one sleeptime a larger batch never gives a larger
\* sleeptime than a smaller one; after two
\* consecutive batches the second sleeptime is at most the first exactly when
\* the second batch has 160 rows or more or the first sleeptime is 1.0, and
\* below it exactly when the second batch has more than 200 rows and the first
\* sleeptime is above 0.2: the size of the first batch plays no part.
C16_PacingSteps ==
    /\ sleeptime \in 1..5
    /\ \A i \in DOMAIN batches : batches[i].sleeptime \in 1..5
    /\ batches /= <<>> => batches[Len(batches)].sleeptime = sleeptime
    /\ \A n, m \in BatchSizes :
            n <= m => AdjustSleeptime(sleeptime, m) <= AdjustSleeptime(sleeptime, n)
    /\ Len(batches) = 2 =>
            LET first == batches[1].sleeptime
                second == batches[2].sleeptime
                b == batches[2].size IN
            /\ second <= first <=> (b >= SlowDownBelow \/ first = 5)
            /\ second < first <=> (b > SpeedUpAbove /\ first > 1)

\* C16 witness: two consecutive small batches, the second not smaller than
\* the first, have raised the sleeptime from 0.4 s to 0.6 s.
C16_Witness ==
    /\ Len(batches) = 2
    /\ batches[1].size <= batches[2].size
    /\ batches[2].size < SlowDownBelow
    /\ batches[1].sleeptime = 2
    /\ batches[2].sleeptime = 3
    /\ sleeptime = 3

\* ------------------------------------------------------------------------
\* Properties of a sensor worker
\* ------------------------------------------------------------------------
\* The run of the step calls send_results with this data: do_run has returned
\* it within run_timeout, and no self.log of the run has raised before.
Sends(logged, lasts, data) ==
    /\ worker.pc = "tick"
    /\ lasts <= RunTimeout
    /\ ~ (logged /\ Log(worker.sensor, worker.clock).raised)
    /\ WorkerRun(logged, lasts, data)

\* Some item of the data fails a check of send_results.
BadOutput(data) ==
    \E i \in DOMAIN data : ~ ItemValid(worker.sensor, data[i])

\* The messages the step has put on the queue.
Put == SubSeq(worker'.out, Len(worker.out) + 1, Len(worker'.out))

\* C17: a run whose result has an undeclared stream or a value of another
\* type than the declared one leaves a record on the sensor's error stream,
\* and the worker goes on with its schedule.
C17_BadOutputReported ==
    [][\A logged \in BOOLEAN, lasts \in Lasts, data \in Results :
        Sends(logged, lasts, data) /\ BadOutput(data) =>
            /\ \E k \in DOMAIN Put : Put[k].stream_name = "error"
            /\ worker'.pc = "tick"]_vars

\* C18: send_results raises and forwards nothing when any item of the call
\* has an undeclared stream, a value that is no instance of the declared
\* type, or a declared type outside the registry; so every message on the
\* queue carries a declared stream and a value of its registered type.
C18_OnlyValidForwarded ==
    [][/\ \A k \in DOMAIN worker'.out :
            LET msg == worker'.out[k] IN
            /\ msg.stream_name \in DOMAIN StreamsOf(worker'.sensor)
            /\ msg.datatype = StreamsOf(worker'.sensor)[msg.stream_name]
            /\ msg.data = msg.datatype
            /\ IsValidType(msg.datatype)
       /\ \A logged \in BOOLEAN, lasts \in Lasts, data \in Results :
            Sends(logged, lasts, data) /\ BadOutput(data) =>
                /\ Put = IF logged THEN Log(worker.sensor, worker'.clock).put
                         ELSE <<>>
                /\ worker'.pc = "exited"
                /\ worker'.exitcode = 0]_vars

\* C18 witness: a run of uptime has put a message of its stream on the
\* queue, and a later call of send_results has raised, which ended the
\* process with exit code 0.
C18_Witness ==
    /\ worker.sensor = "uptime"
    /\ worker.pc = "exited"
    /\ worker.exitcode = 0
    /\ worker.runs = 2
    /\ Len(worker.out) = 1
    /\ worker.out[1].stream_name = "default"

\* C19: a run that lasts longer than run_timeout ends the worker process with
\* exit code 22; the restart reports "timed out" for exit code 22 and "died"
\* for any other.
C19_TimeoutExit ==
    [][/\ \A logged \in BOOLEAN, data \in Results :
            /\ worker.pc = "tick"
            /\ ~ (logged /\ Log(worker.sensor, worker.clock).raised)
            /\ WorkerRun(logged, RunTimeout + 1, data)
            => /\ worker'.pc = "exited"
               /\ worker'.exitcode = SensorTimeoutExitcode
       /\ WorkerRestart =>
            worker'.report = IF worker.exitcode = SensorTimeoutExitcode
                             THEN "timed out" ELSE "died"]_vars

\* C20: the timestamps of the messages one worker has put on the queue, the
\* records of the error stream included, never decrease in the order of the
\* puts.
C20_TimestampsOrdered ==
    \A i, j \in DOMAIN worker.out :
        i <= j => worker.out[i].timestamp <= worker.out[j].timestamp

\* ------------------------------------------------------------------------
\* Properties of the timestamps
\* ------------------------------------------------------------------------
\* -2^63 <= t < 2^63 for the int t: fewer than 64 bits, or -2^63 itself.
InSigned64(v) ==
    \/ v.bits < 64
    \/ v.neg /\ v.bits = 64 /\ v.pow2

\* C21: every timestamp check_millisecond_timestamp accepts lies in
\* -2^63 <= t < 2^63, and for every integer outside that range it raises
\* MillisecondTimestampRangeError.
C21_TimestampRange ==
    stamped.value.type = "int" =>
        /\ stamped.outcome = "returned" => InSigned64(stamped.value)
        /\ ~ InSigned64(stamped.value) =>
                stamped.outcome = "MillisecondTimestampRangeError"

\* ------------------------------------------------------------------------
\* Properties of enrollment and transport
\* ------------------------------------------------------------------------
\* C22: fetch_certificate writes to agent.crt only a certificate whose
\* modulus is that of the private key on disk; on a mismatch, on 'not signed
\* yet' and on 'revoked' agent.crt stays as it is and the loop polls on, run
\* is not started.
C22_KeyCertBinding ==
    [][/\ enrol'.crt /= enrol.crt => enrol'.crt = enrol.key
       /\ \A answer \in FetchAnswers :
            /\ enrol.pc = "polling"
            /\ answer /= enrol.key
            /\ answer /= "error"
            /\ FetchCertificate(answer)
            => /\ enrol'.crt = enrol.crt
               /\ enrol'.pc = "polling"]_vars

\* C22 witness: the loop is polling after the service has answered with a
\* certificate made for another key; there is no agent.crt.
C22_Witness ==
    /\ enrol.pc = "polling"
    /\ enrol.answer \in Moduli
    /\ enrol.answer /= enrol.key
    /\ enrol.crt = "none"

\* C23: every request made while agent.crt and agent.key both exist presents
\* the client certificate, /time and /agent_config after an enrollment in
\* the same process included.
C23_TransportUpgrade ==
    \A r \in enrol.requests : r.certs_exist => r.cert

\* ------------------------------------------------------------------------
\* Properties of the StorageManager
\* ------------------------------------------------------------------------
\* C24: what shutdown upserts for a name is the JSON of its map, and the
\* first get_storage of a StorageManager for a name returns the map of the
\* row of that name; only without a row, or with a text that does not parse,
\* it returns an empty map.
C24_StorageRoundTrip ==
    [][/\ StorageShutdown =>
            \A name \in StorageNames :
                storage.storages[name].held =>
                    storage'.table[name] = JsonDumps(storage.storages[name].map)
       /\ \A name \in StorageNames :
            /\ storage.open
            /\ ~ storage.storages[name].held
            /\ GetStorage(name)
            => storage'.storages[name].map =
                    IF storage.table[name].row /\ storage.table[name].parses
                    THEN storage.table[name].map
                    ELSE {}]_vars

\* ------------------------------------------------------------------------
\* Properties of the config poll
\* ------------------------------------------------------------------------
\* C26: a config poll that fails, with no signal delivered, leaves the agent
\* in its main loop: run() goes on to the sleep and the checks of the
\* processes, with the config and the list of processes it had.
C26_PollFailureSurvived ==
    [][AgentConfigUnreachable(FALSE) =>
            /\ running'
            /\ agent_pc' = "sleep"
            /\ agentconfig' = agentconfig
            /\ subprocesses' = subprocesses]_vars

\* ------------------------------------------------------------------------
\* Properties of the config document
\* ------------------------------------------------------------------------
\* C25: a document that fails the schema leaves the agent's config, the
\* config file and the reserved ids as they were, and the pass of
\* _spawn_sensors that follows leaves running exactly the sensors of the
\* config held before.
C25_InvalidConfigIgnored ==
    [][/\ conf'.step = "config"
       /\ ~ ValidateConfig(conf'.last_doc.doc)
       => /\ conf'.agentconfig = conf.agentconfig
          /\ conf'.configfile = conf.configfile
          /\ conf'.intern_sensors = conf.intern_sensors
          /\ RunningSensors(conf'.subprocesses) =
                {conf.agentconfig[i].config_id :
                    i \in DOMAIN conf.agentconfig}]_vars

\* An invalid document was received while a config with a sensor and both
\* reserved ids was in force, and the sensor still runs.
C25_Witness ==
    /\ conf.step = "config"
    /\ ~ ValidateConfig(conf.last_doc.doc)
    /\ conf.last_doc.doc.sensors /= <<>>
    /\ conf.agentconfig /= <<>>
    /\ conf.intern_sensors.error_id /= "None"
    /\ conf.intern_sensors.config_applied_id /= "None"
    /\ RunningSensors(conf.subprocesses) /= {}

\* C28: after a config with an `_error` descriptor was the last one
\* received, every error logged is put on the queue under the config_id of
\* that descriptor, a restart of the agent in between or not; and no sensor
\* runs for a reserved descriptor.
C28_ErrorStream ==
    /\ \A i \in DOMAIN conf.subprocesses :
            conf.subprocesses[i].cls = "Sensor" =>
                conf.subprocesses[i].config_id \in ConfigIds
    /\ \A i \in DOMAIN conf.agentconfig : IsWorker(conf.agentconfig[i])
    /\ /\ conf.last_doc.received
       /\ ValidateConfig(conf.last_doc.doc)
       /\ \E i \in DOMAIN conf.last_doc.doc.sensors :
                conf.last_doc.doc.sensors[i].sensor = "_error"
       /\ conf.last_error.logged
       => conf.last_error.config_id =
            InternSensors(conf.intern_sensors, conf.last_doc.doc.sensors,
                          1).error_id

\* ------------------------------------------------------------------------
\* Properties of the data package
\* ------------------------------------------------------------------------
\* float('nan') == float('nan') is false; any other two values are equal
\* when they are the same.
PyEq(a, b) == a = b /\ ~ (a.type = "float" /\ a.bytes = NaN)

\* C27: a package holds the signature, the length of the schema name, the
\* name and the serialized value, each pack of a value of a registered type
\* succeeds, and unpack of the package returns a value equal to the one
\* packed.
C27_FramingRoundTrip ==
    /\ framed.pc /= "idle" =>
            /\ framed.packed.type /= "raised"
            /\ framed.packed.bytes =
                    PackShort(Signature)
                    \o PackShort(Len(SchemaNames[framed.value.type]))
                    \o SchemaNames[framed.value.type]
                    \o Serialize(framed.value).bytes
    /\ framed.pc = "unpacked" =>
            /\ framed.unpacked.type /= "raised"
            /\ PyEq(framed.unpacked, Returned(framed.value))

\* ------------------------------------------------------------------------
\* Properties of the config mailbox
\* ------------------------------------------------------------------------
\* C30: the config queue of a periodic worker never holds more than one
\* config; with the flag do_config clear and no reconfigure() under way it
\* is empty; and a worker that has been through the head of its loop since
\* the last reconfigure(c) returned runs with c.
C30_SingleSlotMailbox ==
    /\ Len(mailbox.obj.config_queue) <= 1
    /\ ~ mailbox.obj.do_config /\ mailbox.sup_pc = "idle" =>
            mailbox.obj.config_queue = <<>>
    /\ mailbox.ticked /\ mailbox.child_pc = "run" /\ mailbox.sup_pc = "idle" =>
            mailbox.obj.child_config = mailbox.obj.config

\* C31: every run of a periodic worker that starts after reconfigure(config)
\* has returned uses that config: the sleep before the run (sampling_period),
\* its timeout (run_timeout) and the sensor's own config are all read from
\* the worker's self.config, which then equals the config of the call.
C31_NextRunUsesNewConfig ==
    [][TickRun /\ mailbox.sup_pc = "idle"
            => mailbox.obj.child_config = mailbox.obj.config]_vars

\* ------------------------------------------------------------------------
\* Properties of the drain
\* ------------------------------------------------------------------------
\* C29: with every request answered 200 OK and no new message, the Spool is
\* empty at some time; and a Spool of at most Limit rows is empty once the
\* response to the next request has been handled.
C29_SpoolDrains ==
    /\ <>(sensordata = {})
    /\ [][Cardinality(sensordata) <= Limit /\ Reqdone(200, OkBody)
            => sensordata' = {}]_vars

\* ------------------------------------------------------------------------
\* Properties of a restarted or reconfigured sensor
\* ------------------------------------------------------------------------
\* C36: a worker that the walk of the main loop starts in the place of a
\* dead one runs with the config last given to the dead object through
\* reconfigure(), which is the entry of its config_id in the AgentConfig.
C36_RespawnKeepsConfig ==
    [][ScanStep =>
        \A cid \in RunningSensors(subprocesses) \cap RunningSensors(subprocesses') :
            LET old == subprocesses[SensorIndex(subprocesses, cid)]
                new == subprocesses'[SensorIndex(subprocesses', cid)] IN
            ~ IsAlive(old) /\ IsAlive(new) =>
                /\ new.child_config = old.config
                /\ new.child_config = agentconfig[cid]]_vars

\* C37: the limit the main loop holds for a sensor of the list is the
\* memory_limit of the config that sensor object holds.
C37_LimitFollowsConfig ==
    \A i \in DOMAIN subprocesses :
        subprocesses[i].cls = "Sensor" =>
            subprocesses[i].memory_limit = MemoryLimit(subprocesses[i].config)

\* ------------------------------------------------------------------------
\* Properties of the Receiver
\* ------------------------------------------------------------------------
\* C33: when pack fails for a message taken from the queue, only that
\* message is lost: the rows INSERTed earlier in the drain still await the
\* commit, and the Receiver goes on draining.
C33_OnlyFailedLost ==
    [][ReceiverPackRaises =>
        /\ uncommitted' = uncommitted
        /\ receiver_pc' = "drain"]_vars

\* ------------------------------------------------------------------------
\* Properties of the Shipper's batch and of its DELETE
\* ------------------------------------------------------------------------
\* C34: a batch holds at most 250 rows (Limit), and a DELETE of _reqdone
\* binds at most two parameters per row of a full batch, also when its pairs
\* come from the body of the response.
C34_BoundParameters ==
    /\ Cardinality(shipment.data) <= Limit
    /\ shipment.bound <= 2 * Limit

\* C35: a row leaves the Spool only if that row was among the rows of the
\* batch whose response is handled.
C35_OnlySentRowsDeleted ==
    [][(shipment.table \ shipment'.table) \subseteq shipment.data]_vars

\* C38: _reqdone returns for every response, so no answer of the collector
\* ends the Shipper process.
C38_ReqdoneReturns ==
    [][shipment.pc = "request" => shipment'.pc /= "dead"]_vars

\* ------------------------------------------------------------------------
\* Properties of the shutdown
\* ------------------------------------------------------------------------
\* C40: once the manager is shut down and the sensors have exited, the
\* table holds for every storage what its sensor wrote last; the flush
\* takes place only when no sensor process is running any more.
C40_FlushAfterWorkers ==
    /\ [](/\ closing.pc = "down"
          /\ \A cid \in ConfigIds : ~ IsAlive(closing.sensors[cid])
          => \A name \in StorageNames :
                closing.table[name] = JsonDumps(closing.stores[name]))
    /\ [][CleanupFlush =>
            \A cid \in ConfigIds : ~ IsAlive(closing.sensors[cid])]_vars

\* ------------------------------------------------------------------------
\* Properties of the schedule
\* ------------------------------------------------------------------------
\* C32: in seconds of a monotonic clock, a run whose predecessor finished
\* within the period starts at least sampling_period after the start of that
\* predecessor; a run whose predecessor overran the period starts without
\* sleep; the spacing is reckoned from the start that took place, also
\* behind an overrun.
C32_NoCatchUp ==
    schedule.pc = "run" /\ schedule.runs >= 2 =>
        /\ schedule.finished <= schedule.sampling_period
                => schedule.gap >= schedule.sampling_period
        /\ schedule.finished > schedule.sampling_period
                => schedule.sleeptime = 0 /\ schedule.gap = schedule.finished

\* ------------------------------------------------------------------------
\* Properties of applying a config with a kind that cannot be loaded
\* ------------------------------------------------------------------------
\* C39: applying a schema-valid document never ends the main loop, and
\* every descriptor of it whose kind can be loaded has its sensor running
\* after the pass.
C39_BadDescriptorIsolated ==
    /\ loading.pc /= "crashed"
    /\ \A cid \in DOMAIN loading.agentconfig :
            Loadable(loading.agentconfig[cid].sensor)
                => cid \in RunningSensors(loading.subprocesses)

====
